---- MODULE Spec2Model ----
(***************************************************************************)
(* A model of tenon-ts: the segment evaluator (contextFor / matches), the  *)
(* matcher wrapping layer with its per-call result cache, the logical      *)
(* operators and the DataLoader batch coalescer.                           *)
(*                                                                         *)
(* One JavaScript job (a synchronous run between two awaits) is one        *)
(* action.  Promises settle in any order: timers and I/O decide it.        *)
(***************************************************************************)
EXTENDS Integers, Sequences, FiniteSets, TLC

\* ------------------------------------------------------------------------
\* Values thrown and the Error classes
\* ------------------------------------------------------------------------

\* a value a user function can throw: an Error object or a plain string
Thrown(isErr, text) ==
  [isError |-> isErr, name |-> IF isErr THEN "Error" ELSE "-", message |-> text,
   matcherName |-> "-", segmentName |-> "-", cause |-> "-"]

ThrownValues == {Thrown(TRUE, "fail"), Thrown(FALSE, "failstr")}

NoErr == Thrown(FALSE, "-")

\* new Error(String(v)); e.name = "Error"
NewError(text) == Thrown(TRUE, text)

\* mutant of ToError: the thrown value is handed on as it is
ToErrorUnchanged(v) == v

\* err instanceof Error ? err : new Error(String(err))
ToError(v) == IF v.isError THEN v ELSE NewError(v.message)

MatcherArgumentError(message, matcherName, segmentName) ==
  [isError |-> TRUE, name |-> "MatcherArgumentError", message |-> message,
   matcherName |-> matcherName, segmentName |-> segmentName, cause |-> "-"]

MatcherEvaluationError(matcherName, segmentName, originalError) ==
  [isError |-> TRUE, name |-> "MatcherEvaluationError", message |-> "matcher error",
   matcherName |-> matcherName, segmentName |-> segmentName,
   cause |-> ToError(originalError).message]

\* ------------------------------------------------------------------------
\* Results (neverthrow ResultAsync): absent / pending / Ok(val) / Err(err)
\* ------------------------------------------------------------------------
Absent == [st |-> "absent", val |-> FALSE, err |-> NoErr]
Pending == [st |-> "pending", val |-> FALSE, err |-> NoErr]
Ok(b) == [st |-> "ok", val |-> b, err |-> NoErr]
Err(e) == [st |-> "err", val |-> FALSE, err |-> e]

\* ------------------------------------------------------------------------
\* The matcher map given to the builder and the expression trees
\* ------------------------------------------------------------------------
\* JavaScript values: a type tag, the text of a primitive as its characters, and
\* the elements of an array or the properties of an object in insertion order
Val(t, s, kids) == [t |-> t, s |-> s, kids |-> kids]
Prop(k, v) == [k |-> k, v |-> v]
JUndefined == Val("undefined", <<>>, <<>>)
JNull == Val("null", <<>>, <<>>)
JBool(b) == Val("boolean", IF b THEN <<"t", "r", "u", "e">> ELSE <<"f", "a", "l", "s", "e">>, <<>>)
\* a finite number, by its decimal text
JNum(digits) == Val("number", digits, <<>>)
JStr(chars) == Val("string", chars, <<>>)
\* a Date, by the text of its toISOString(); it has no own enumerable property
JDate(iso) == Val("date", iso, <<>>)
JArr(vs) == Val("array", <<>>, [i \in 1..Len(vs) |-> Prop(<<>>, vs[i])])
JObj(ps) == Val("object", <<>>, ps)

\* NoArg is `undefined`, the argument of a no-argument matcher
NoArg == JUndefined
ArgAB == JObj(<<Prop(<<"a">>, JNum(<<"1">>)), Prop(<<"b">>, JNum(<<"2">>))>>)
ArgBA == JObj(<<Prop(<<"b">>, JNum(<<"2">>)), Prop(<<"a">>, JNum(<<"1">>))>>)
ArgBad == JObj(<<Prop(<<"b", "a", "d">>, JNum(<<"1">>))>>)
Undefined == "undefined"

\* a configuration given to createMatcher: an argument schema or none, and the
\* functions under `evaluate` and `evaluateBatch` ("undefined": property absent)
Config(hasArgs, evaluate, evaluateBatch) ==
  [arguments |-> hasArgs, evaluate |-> evaluate, evaluateBatch |-> evaluateBatch]

\* mutant of CreateMatcher: the configuration is copied as it is
CreateMatcherKeepsEvaluate(cfg) == cfg

\* createMatcher(config): with both evaluators, { evaluate, ...rest } => rest
CreateMatcher(cfg) ==
  IF cfg.evaluate # "undefined" /\ cfg.evaluateBatch # "undefined"
  THEN [cfg EXCEPT !.evaluate = "undefined"]
  ELSE cfg

\* the matcher map given to the builder; b1 is written with both evaluators
MatcherConfigs ==
  [s1 |-> CreateMatcher(Config(FALSE, "evaluate", "undefined")),
   s2 |-> CreateMatcher(Config(FALSE, "evaluate", "undefined")),
   b1 |-> CreateMatcher(Config(FALSE, "evaluate", "evaluateBatch")),
   p1 |-> CreateMatcher(Config(TRUE, "evaluate", "undefined")),
   q1 |-> CreateMatcher(Config(TRUE, "undefined", "evaluateBatch"))]

\* wrapMatchers: if (matcherObj.evaluateBatch) the DataLoader shape, else evaluate
ModeOf(matcherObj) == IF matcherObj.evaluateBatch # "undefined" THEN "batch" ELSE "single"

\* name -> configuration shape (arguments schema or not, evaluate or evaluateBatch)
MatcherObj ==
  [m \in DOMAIN MatcherConfigs |->
     [hasArgs |-> MatcherConfigs[m].arguments, mode |-> ModeOf(MatcherConfigs[m])]]

MatcherNames == DOMAIN MatcherObj

ArgValues == {ArgAB, ArgBA, ArgBad}

HasKey(obj, k) == \E i \in 1..Len(obj.kids) : obj.kids[i].k = k
ValueOf(obj, k) == obj.kids[CHOOSE i \in 1..Len(obj.kids) : obj.kids[i].k = k].v

\* mutant of ValidateArg: every argument passes
ValidateArgAccepts(arg) == [issues |-> <<>>, hasValue |-> TRUE]

\* the argument schema of p1 and q1: an object with a property "bad" fails validation
ValidateArg(arg) ==
  IF HasKey(arg, <<"b", "a", "d">>) THEN [issues |-> <<"invalid argument">>, hasValue |-> FALSE]
  ELSE [issues |-> <<>>, hasValue |-> TRUE]

\* F applied to the value of e
With(e, F(_)) == CHOOSE r \in {F(x) : x \in {e}} : TRUE

\* the UTF-16 code units of the characters of property names
CodeUnit == ("1" :> 49) @@ ("2" :> 50) @@ ("a" :> 97) @@ ("b" :> 98) @@ ("d" :> 100)

RECURSIVE LessStr(_, _)
\* x < y as Array.prototype.sort() compares two strings
LessStr(x, y) ==
  IF x = <<>> THEN y # <<>>
  ELSE IF y = <<>> THEN FALSE
  ELSE IF Head(x) = Head(y) THEN LessStr(Tail(x), Tail(y))
  ELSE CodeUnit[Head(x)] < CodeUnit[Head(y)]

RECURSIVE SortKeys(_)
\* keys.sort()
SortKeys(ks) ==
  IF ks = {} THEN <<>>
  ELSE With(CHOOSE k \in ks : \A o \in ks \ {k} : LessStr(k, o),
            LAMBDA m : <<m>> \o SortKeys(ks \ {m}))

\* Object.keys(record).sort().map(k => [k, record[k]])
SortedProps(obj) ==
  With(SortKeys({obj.kids[i].k : i \in 1..Len(obj.kids)}),
       LAMBDA ks : [i \in 1..Len(ks) |-> Prop(ks[i], ValueOf(obj, ks[i]))])

RECURSIVE JoinFrom(_, _)
JoinFrom(texts, i) ==
  IF i > Len(texts) THEN <<>>
  ELSE IF i = Len(texts) THEN texts[i]
  ELSE texts[i] \o <<",">> \o JoinFrom(texts, i + 1)

\* texts.join(",")
Join(texts) == With(texts, LAMBDA ts : JoinFrom(ts, 1))

RECURSIVE Escape(_)
\* the escapes JSON.stringify writes inside a string: \" and \\
Escape(chars) ==
  IF chars = <<>> THEN <<>>
  ELSE (IF Head(chars) \in {"\"", "\\"} THEN <<"\\", Head(chars)>> ELSE <<Head(chars)>>)
       \o Escape(Tail(chars))

Quote(chars) == <<"\"">> \o Escape(chars) \o <<"\"">>

RECURSIVE JSONStringify(_)
\* JSON.stringify(obj): the properties in insertion order; `undefined` is left out
\* of an object and written null in an array; a Date is written by toJSON().
\* The `undefined` it answers for undefined reads "undefined" once concatenated.
JSONStringify(obj) ==
  IF obj.t = "undefined" THEN <<"u", "n", "d", "e", "f", "i", "n", "e", "d">>
  ELSE IF obj.t = "null" THEN <<"n", "u", "l", "l">>
  ELSE IF obj.t \in {"boolean", "number"} THEN obj.s
  ELSE IF obj.t \in {"string", "date"} THEN Quote(obj.s)
  ELSE IF obj.t = "array"
  THEN <<"[">> \o Join([i \in 1..Len(obj.kids) |->
                          IF obj.kids[i].v.t = "undefined" THEN <<"n", "u", "l", "l">>
                          ELSE JSONStringify(obj.kids[i].v)]) \o <<"]">>
  ELSE LET Defined(p) == p.v.t # "undefined"
       IN With(SelectSeq(obj.kids, Defined),
               LAMBDA ps : <<"{">> \o Join([i \in 1..Len(ps) |->
                             Quote(ps[i].k) \o <<":">> \o JSONStringify(ps[i].v)]) \o <<"}">>)

\* mutant of StableStringify: the keys are not sorted
StableStringifyUnsorted(obj) == JSONStringify(obj)

RECURSIVE StableStringify(_)
\* stableStringify(obj): a primitive by JSON.stringify, an array element by
\* element (join writes nothing for undefined), any other object (a Date too) by
\* its own enumerable properties with the keys sorted
StableStringify(obj) ==
  IF obj.t \in {"undefined", "null", "boolean", "number", "string"} THEN JSONStringify(obj)
  ELSE IF obj.t = "array"
  THEN <<"[">> \o Join([i \in 1..Len(obj.kids) |->
                          IF obj.kids[i].v.t = "undefined" THEN <<>>
                          ELSE StableStringify(obj.kids[i].v)]) \o <<"]">>
  ELSE With(SortedProps(obj),
            LAMBDA ps : <<"{">> \o Join([i \in 1..Len(ps) |->
                          Quote(ps[i].k) \o <<":">> \o StableStringify(ps[i].v)]) \o <<"}">>)

\* matcherName + "|args:" + stableStringify(args)
MakeMatcherCacheKey(name, arg) == <<name, "|args:">> \o StableStringify(arg)

\* no cache key
NoKey == <<"-">>

Keys ==
  {MakeMatcherCacheKey(m, a) : m \in {x \in MatcherNames : ~MatcherObj[x].hasArgs}, a \in {NoArg}}
  \cup {MakeMatcherCacheKey(m, a) : m \in {x \in MatcherNames : MatcherObj[x].hasArgs}, a \in ArgValues}

\* mutant of LoaderKey: one key, and so one DataLoader, for all batched matchers
LoaderKeyShared(name, arg) == MakeMatcherCacheKey("b1", NoArg)

\* `${name}:${argKey}` (`${name}` without an argument): one DataLoader for the
\* matcher and argument text that one cache key names
LoaderKey(name, arg) == MakeMatcherCacheKey(name, arg)

LoaderKeys == {k \in Keys : MatcherObj[k[1]].mode = "batch"}

\* nodes of a tree, numbered in the order _evaluateInternal visits them
Leaf(name, arg) == [op |-> "matcher", name |-> name, arg |-> arg, kids |-> <<>>]
Node(op, kids) == [op |-> op, name |-> "-", arg |-> NoArg, kids |-> kids]

\* ------------------------------------------------------------------------
\* Segment definition functions: what they return, or that they throw
\* ------------------------------------------------------------------------
Returns(tree) == [does |-> "returns", thrown |-> NoErr, tree |-> tree]
Throws(v) == [does |-> "throws", thrown |-> v, tree |-> <<Leaf("s1", NoArg)>>]

\* segmentsObj: the registered segment definitions
SegmentsObj ==
  [single  |-> Returns(<<Leaf("s1", NoArg)>>),
   negated |-> Returns(<<Node("not", <<2>>), Leaf("s1", NoArg)>>),
   both    |-> Returns(<<Node("and", <<2, 3>>), Leaf("s1", NoArg), Leaf("s2", NoArg)>>),
   either  |-> Returns(<<Node("or", <<2, 3>>), Leaf("s1", NoArg), Leaf("s2", NoArg)>>),
   twice   |-> Returns(<<Node("and", <<2, 3>>), Leaf("s1", NoArg), Leaf("s1", NoArg)>>),
   nested  |-> Returns(<<Node("or", <<2, 3>>), Leaf("s1", NoArg), Node("not", <<4>>),
                         Node("and", <<5, 6>>), Leaf("s1", NoArg), Leaf("s2", NoArg)>>),
   batched |-> Returns(<<Leaf("b1", NoArg)>>),
   mixed   |-> Returns(<<Node("and", <<2, 3, 4>>), Leaf("s1", NoArg), Leaf("b1", NoArg),
                         Leaf("b1", NoArg)>>),
   withArg |-> Returns(<<Node("or", <<2, 3>>), Leaf("p1", ArgAB), Leaf("q1", ArgAB)>>),
   sameArg |-> Returns(<<Node("and", <<2, 3, 4, 5>>), Leaf("p1", ArgAB), Leaf("p1", ArgBA),
                         Leaf("q1", ArgBA), Leaf("q1", ArgAB)>>),
   badArg  |-> Returns(<<Node("and", <<2, 3>>), Leaf("p1", ArgBad), Leaf("p1", ArgBad)>>),
   badBatchArg |-> Returns(<<Node("or", <<2, 3>>), Leaf("q1", ArgBad), Leaf("s1", NoArg)>>),
   throwsError  |-> Throws(Thrown(TRUE, "fail")),
   throwsString |-> Throws(Thrown(FALSE, "failstr"))]

SegmentNames == DOMAIN SegmentsObj

\* a name that is not registered
UnknownSegment == "doesNotExist"

\* the functions a caller can pass for an ad-hoc segment
AdHocFns == {SegmentsObj[n] : n \in SegmentNames}

\* the arguments of one matches() call
NamedArg(name, hasFb) == [isFn |-> FALSE, name |-> name, fn |-> Throws(NoErr), hasFallback |-> hasFb]
AdHocArg(fn, hasFb) == [isFn |-> TRUE, name |-> "ad-hoc", fn |-> fn, hasFallback |-> hasFb]
NoCall == [isFn |-> FALSE, name |-> "-", fn |-> Throws(NoErr), hasFallback |-> FALSE]

\* ------------------------------------------------------------------------
\* What user code does when it is called
\* ------------------------------------------------------------------------
Beh(kind, val, thrown) == [kind |-> kind, val |-> val, thrown |-> thrown]
Unset == Beh("unset", FALSE, NoErr)

\* evaluate(): returns a boolean, returns a promise of one, throws, rejects
SingleBehaviours ==
  {Beh(k, v, NoErr) : k \in {"ret", "promise"}, v \in BOOLEAN}
  \cup {Beh("throw", FALSE, t) : t \in ThrownValues}
  \cup {Beh("reject", FALSE, Thrown(TRUE, "fail"))}

\* evaluateBatch(): calls every resolver with a boolean, or throws or rejects
\* before calling any
BatchBehaviours ==
  {Beh("resolve", v, NoErr) : v \in BOOLEAN}
  \cup {Beh(k, FALSE, Thrown(TRUE, "fail")) : k \in {"throw", "reject"}}

\* the onErrorFallback callback
FallbackBehaviours ==
  {Beh(k, v, NoErr) : k \in {"ret", "promise"}, v \in BOOLEAN}
  \cup {Beh("throw", FALSE, t) : t \in ThrownValues}
  \cup {Beh("reject", FALSE, Thrown(TRUE, "fail"))}

Calls == {"c1", "c2"}
\* validated subjects; "undefined" is a schema answering {value: undefined}
Subjects == {"u1", "u2", Undefined}

\* ------------------------------------------------------------------------
\* DataLoader (the batch coalescer)
\* ------------------------------------------------------------------------
NoLoader == [kind |-> "none", queue |-> <<>>, scheduled |-> FALSE, cache |-> {}]

\* new DataLoader(evaluateBatch): queue = [], scheduled = false, cache = new Map()
NewDataLoader == [kind |-> "DataLoader", queue |-> <<>>, scheduled |-> FALSE, cache |-> {}]

\* a request given to load(): the context object of a batched matcher
Request(params, arg, segmentName) == [params |-> params, arg |-> arg, segmentName |-> segmentName]

\* getCacheKey(arg) = JSON.stringify(arg)
GetCacheKey(arg) ==
  <<"{", "params", arg.params, "arg">> \o JSONStringify(arg.arg) \o <<"segmentName", arg.segmentName, "}">>

\* mutant of DLLoad: the flush is never scheduled
DLLoadNoSchedule(dl0, arg, promise) ==
  [dl |-> [dl0 EXCEPT !.queue = Append(@, [arg |-> arg, resolve |-> promise]),
                     !.cache = @ \cup {[key |-> GetCacheKey(arg), promise |-> promise]}],
   promise |-> promise,
   schedule |-> FALSE]

\* mutant of DLLoad: every load() that enqueues schedules a flush
DLLoadAlwaysSchedule(dl0, arg, promise) ==
  LET hit == {e \in dl0.cache : e.key = GetCacheKey(arg)}
  IN IF hit # {}
     THEN [dl |-> dl0, promise |-> (CHOOSE e \in hit : TRUE).promise, schedule |-> FALSE]
     ELSE [dl |-> [dl0 EXCEPT !.queue = Append(@, [arg |-> arg, resolve |-> promise]),
                              !.scheduled = TRUE,
                              !.cache = @ \cup {[key |-> GetCacheKey(arg), promise |-> promise]}],
           promise |-> promise,
           schedule |-> TRUE]

\* load(arg), where `promise` names the promise a cache miss creates.
\* schedule: this call queued the microtask that runs flush()
DLLoad(dl0, arg, promise) ==
  LET key == GetCacheKey(arg)
      hit == {e \in dl0.cache : e.key = key}
  IN IF hit # {}
     THEN [dl |-> dl0, promise |-> (CHOOSE e \in hit : TRUE).promise, schedule |-> FALSE]
     ELSE [dl |-> [dl0 EXCEPT !.queue = Append(@, [arg |-> arg, resolve |-> promise]),
                             !.scheduled = TRUE,
                             !.cache = @ \cup {[key |-> key, promise |-> promise]}],
           promise |-> promise,
           schedule |-> ~dl0.scheduled]

\* mutant of DLFlush: the dedup cache is not replaced
DLFlushKeepCache(dl0) ==
  [dl |-> [dl0 EXCEPT !.queue = <<>>, !.scheduled = FALSE],
   batch |-> dl0.queue]

\* flush(): the state it leaves and the batch it hands to evaluateBatch
DLFlush(dl0) ==
  [dl |-> [dl0 EXCEPT !.cache = {}, !.queue = <<>>, !.scheduled = FALSE],
   batch |-> dl0.queue]

\* the promises a batch's resolvers resolve
Resolvers(batch) == {batch[i].resolve : i \in 1..Len(batch)}

\* ------------------------------------------------------------------------
\* wrapMatchers: _evaluateInternal of a wrapped matcher
\* ------------------------------------------------------------------------
NotLaunched == [src |-> "none", key |-> NoKey, res |-> Absent]
\* the ResultAsync stored in the per-call cache under key
FromCache(key) == [src |-> "cache", key |-> key, res |-> Absent]
\* a ResultAsync returned without being stored
Own(res) == [src |-> "own", key |-> NoKey, res |-> res]
\* _evaluateInternal did not return: it threw e synchronously
Threw(e) == [src |-> "thrown", key |-> NoKey, res |-> Err(e)]

\* mutant of MissingBatchContext: the context is used without the test
MissingBatchContextIgnored(context) == FALSE

\* if (!batchContext)
MissingBatchContext(context) == context.batchContext = Undefined

\* mutant of OrUnknown: the segment name is dropped
OrUnknownAlways(segmentName) == "unknown"

\* segmentName ?? "unknown"
OrUnknown(segmentName) == IF segmentName = Undefined THEN "unknown" ELSE segmentName

\* st: the cache, the batch context and the microtask queue of the call, the
\* evaluator invocation counts and the ResultAsync each leaf of the tree got.
\* context: params (the subject), segmentName, and what each evaluate() does.
EvaluateInternal(st, n, leaf, context) ==
  LET key == MakeMatcherCacheKey(leaf.name, leaf.arg)
      obj == MatcherObj[leaf.name]
      v == ValidateArg(leaf.arg)
      seg == OrUnknown(context.segmentName)
      lk == LoaderKey(leaf.name, leaf.arg)
      dl0 == IF st.batchContext[lk].kind = "none" THEN NewDataLoader ELSE st.batchContext[lk]
      ld == DLLoad(dl0, Request(context.params, leaf.arg, context.segmentName), key)
      b == context.evaluate[leaf.name]
  IN
  IF st.cache[key].st # "absent"
  THEN [st EXCEPT !.outs[n] = FromCache(key)]
  ELSE IF obj.hasArgs /\ Len(v.issues) > 0
  THEN [st EXCEPT !.outs[n] = Own(Err(MatcherArgumentError(v.issues[1], leaf.name, seg)))]
  ELSE IF obj.hasArgs /\ ~v.hasValue
  THEN [st EXCEPT !.outs[n] = Own(Err(MatcherArgumentError(
                      "Matcher argument schema did not return a valid value", leaf.name, seg)))]
  ELSE IF obj.mode = "batch" /\ MissingBatchContext(context)
  THEN [st EXCEPT !.outs[n] = Threw(NewError("batchContext is required for batch matchers"))]
  ELSE IF obj.mode = "batch"
  THEN [st EXCEPT !.batchContext[lk] = ld.dl,
                  !.tasks[lk] = @ + (IF ld.schedule THEN 1 ELSE 0),
                  !.cache[key] = IF ld.promise = key THEN Pending ELSE st.cache[ld.promise],
                  !.outs[n] = FromCache(key)]
  ELSE IF b.kind = "throw"
  THEN [st EXCEPT !.invoked[key] = @ + 1,
                  !.outs[n] = Own(Err(MatcherEvaluationError(leaf.name, seg, b.thrown)))]
  ELSE [st EXCEPT !.invoked[key] = @ + 1,
                  !.cache[key] = IF b.kind = "ret" THEN Ok(b.val) ELSE Pending,
                  !.outs[n] = FromCache(key)]

\* ------------------------------------------------------------------------
\* Logical operators
\* ------------------------------------------------------------------------

\* mutant of OperandsLaunched: the operands are evaluated one after the other
OperandsLaunchedFirstOnly(kids) == <<kids[1]>>

\* and / or: matchers.map((m) => m._evaluateInternal(context)) calls every
\* operand before Promise.all is awaited
OperandsLaunched(kids) == kids

RECURSIVE LaunchNode(_, _, _, _)
RECURSIVE LaunchKids(_, _, _, _, _)

\* the synchronous part of node n's _evaluateInternal
LaunchNode(st, t, n, context) ==
  IF t[n].op = "matcher"
  THEN EvaluateInternal(st, n, t[n], context)
  ELSE LaunchKids(st, t, OperandsLaunched(t[n].kids), 1, context)

LaunchKids(st, t, kids, i, context) ==
  IF i > Len(kids) THEN st
  ELSE CHOOSE r \in {LaunchKids(next, t, kids, i + 1, context) :
                       next \in {LaunchNode(st, t, kids[i], context)}} : TRUE

\* the error mapper of ResultAsync.fromPromise in the operators
FirstError(rs) ==
  ToError(rs[CHOOSE i \in 1..Len(rs) : rs[i].st = "err" /\ \A j \in 1..(i - 1) : rs[j].st # "err"].err)

AnyPending(rs) == \E i \in 1..Len(rs) : rs[i].st = "pending"
AnyErr(rs) == \E i \in 1..Len(rs) : rs[i].st = "err"

\* mutant of AndEval: some() in the place of every()
AndEvalSome(rs) ==
  IF AnyPending(rs) THEN Pending
  ELSE IF AnyErr(rs) THEN Err(FirstError(rs))
  ELSE Ok(\E i \in 1..Len(rs) : rs[i].val)

\* and: await Promise.all; throw the first error in operand order; else every()
AndEval(rs) ==
  IF AnyPending(rs) THEN Pending
  ELSE IF AnyErr(rs) THEN Err(FirstError(rs))
  ELSE Ok(\A i \in 1..Len(rs) : rs[i].val)

\* mutant of OrEval: an operand that is true decides, whatever the others report
OrEvalShortCircuit(rs) ==
  IF \E i \in 1..Len(rs) : rs[i].st = "ok" /\ rs[i].val THEN Ok(TRUE)
  ELSE IF AnyPending(rs) THEN Pending
  ELSE IF AnyErr(rs) THEN Err(FirstError(rs))
  ELSE Ok(FALSE)

\* or: as and, with some()
OrEval(rs) ==
  IF AnyPending(rs) THEN Pending
  ELSE IF AnyErr(rs) THEN Err(FirstError(rs))
  ELSE Ok(\E i \in 1..Len(rs) : rs[i].val)

\* mutant of NotEval: the operand's failure is read as false (unwrapOr) and negated
NotEvalUnwrap(r) ==
  IF r.st = "pending" THEN Pending ELSE Ok(~r.val)

\* not: await the operand; throw its error; else negate
NotEval(r) ==
  IF r.st = "pending" THEN Pending
  ELSE IF r.st = "err" THEN Err(ToError(r.err))
  ELSE Ok(~r.val)

\* the state of the ResultAsync a leaf returned
LeafResult(out, cache) ==
  IF out.src = "cache" THEN cache[out.key]
  ELSE IF out.src = "own" THEN out.res
  ELSE Pending

RECURSIVE EvalNode(_, _, _, _)
\* the state of the ResultAsync node n's _evaluateInternal returned
EvalNode(t, n, outs, cache) ==
  LET kids == t[n].kids
      rs == [i \in 1..Len(kids) |-> EvalNode(t, kids[i], outs, cache)]
  IN IF t[n].op = "matcher" THEN LeafResult(outs[n], cache)
     ELSE IF t[n].op = "and" THEN AndEval(rs)
     ELSE IF t[n].op = "or" THEN OrEval(rs)
     ELSE NotEval(rs[1])

\* ------------------------------------------------------------------------
\* wrapMatchers: the factories and their memo
\* ------------------------------------------------------------------------
\* flushAllBatchQueues has not been called
NoFlush ==
  [pc |-> "idle", given |-> <<>>, batchContext |-> <<>>, todo |-> <<>>, awaited |-> "-",
   ev |-> <<>>, batches |-> <<>>, resolved |-> <<>>]

\* const matcherMemo = new Map() of each factory; `let matcher` of a factory
\* without argument schema is a memo of at most one entry
NewMemo == [m \in MatcherNames |-> <<>>]

\* mutant of ArgKey: the argument itself is the key of the memo
ArgKeyIdentity(name, arg) == <<arg>>

\* const argKey = stableStringify(matcherArg); none without an argument schema
ArgKey(name, arg) == IF MatcherObj[name].hasArgs THEN StableStringify(arg) ELSE <<>>

\* wrappedMatchers[name](matcherArg): the memo it leaves and the object it
\* returns, <<name, n>> being the n-th MatcherDefinition that factory created
Factory(memo, name, arg) ==
  LET argKey == ArgKey(name, arg)
      hit == {i \in 1..Len(memo[name]) : memo[name][i].argKey = argKey}
  IN IF hit # {}
     THEN [memo |-> memo, instance |-> <<name, CHOOSE i \in hit : TRUE>>]
     ELSE [memo |-> [memo EXCEPT ![name] = Append(@, [argKey |-> argKey, arg |-> arg])],
           instance |-> <<name, Len(memo[name]) + 1>>]

RECURSIVE CallFactories(_, _, _)
\* the segment definition function calls the factory of each matcher it names,
\* from left to right; a MatcherDefinition evaluates with the matcherArg it was
\* created with
CallFactories(memo, tree, n) ==
  IF n > Len(tree) THEN [memo |-> memo, tree |-> tree]
  ELSE IF tree[n].op # "matcher" THEN CallFactories(memo, tree, n + 1)
  ELSE CHOOSE r \in {CallFactories(f.memo,
                                     [tree EXCEPT ![n].arg = f.memo[tree[n].name][f.instance[2]].arg],
                                     n + 1) :
                       f \in {Factory(memo, tree[n].name, tree[n].arg)}} : TRUE

\* ------------------------------------------------------------------------
\* State
\* ------------------------------------------------------------------------
VARIABLES
  ctx,          \* per call: what contextFor returned
  subject,      \* per call: the validated subject
  call,         \* per call: the arguments of matches()
  pc,           \* per call: where the async function matches() stands
  result,       \* per call: how the promise returned by matches() settled
  cache,        \* per call: matcherCache, cache key -> ResultAsync
  outs,         \* per call: the ResultAsync each node of the tree returned
  invoked,      \* per call: cache key -> number of calls of the user's evaluate()
  batchContext, \* per call: loader key -> DataLoader
  tasks,        \* per call: loader key -> flush() microtasks queued
  batchLog,     \* per call: the batches evaluateBatch() was called with
  failures,     \* per call: the leaves whose result completed as a failure, in order
  behav,        \* <<matcher, subject>> -> what the user's evaluator does
  fbOutcome,    \* per call: what the fallback callback did
  fallbackLog,  \* per call: the error arrays the fallback was called with
  loggerLog,    \* per call: the errors logger.error was called with
  onErrorLog,   \* per call: the calls of the onError observer
  spans,        \* per call: the spans started and ended, in order
  dl,           \* a DataLoader used on its own
  dlTasks,      \* the flush() microtasks queued for it
  dlPromise,    \* the promises its load() created: "pending", "true" or "false"
  dlLoads,      \* the load() calls made on it, in order
  dlEvals,      \* the calls of its evaluateBatch, in order
  matcherMemo,  \* per factory: the MatcherDefinition objects it created, in order
  factoryLog,   \* the calls of the factories made directly, in order
  fq,           \* a call of flushAllBatchQueues made directly
  observers     \* what logger.error and the onError observer do: "quiet", or one of them throws

matchVars == <<ctx, subject, call, pc, result, cache, outs, invoked, batchContext, tasks,
          batchLog, failures, behav, fbOutcome, fallbackLog, loggerLog, onErrorLog, spans>>

evalVars == <<cache, outs, invoked, batchContext, tasks, batchLog, failures, behav>>
errorVars == <<fbOutcome, fallbackLog, loggerLog, onErrorLog>>
dlVars == <<dl, dlTasks, dlPromise, dlLoads, dlEvals>>
memoVars == <<matcherMemo, factoryLog>>
flushVars == <<fq>>
obsVars == <<observers>>
otherVars == <<memoVars, flushVars, obsVars>>
vars == <<matchVars, dlVars, otherVars>>

SingleNames == {m \in MatcherNames : MatcherObj[m].mode = "single"}
BatchNames == {m \in MatcherNames : MatcherObj[m].mode = "batch"}

B2S(b) == IF b THEN "true" ELSE "false"

\* what schema["~standard"].validate(input) answers: `issues` present (truthy)
\* or not, `value` present or not
Answer(hasIssues, issues, hasValue, value) ==
  [hasIssues |-> hasIssues, issues |-> issues, hasValue |-> hasValue, value |-> value]

NoCtx == [state |-> "none", issues |-> <<>>, answer |-> Answer(FALSE, <<>>, FALSE, Undefined)]

\* a builder with its observers; no contextFor call made yet
InitWith(obs) ==
  /\ ctx = [c \in Calls |-> NoCtx]
  /\ subject = [c \in Calls |-> Undefined]
  /\ call = [c \in Calls |-> NoCall]
  /\ pc = [c \in Calls |-> "new"]
  /\ result = [c \in Calls |-> "none"]
  /\ cache = [c \in Calls |-> [k \in Keys |-> Absent]]
  /\ outs = [c \in Calls |-> <<>>]
  /\ invoked = [c \in Calls |-> [k \in Keys |-> 0]]
  /\ batchContext = [c \in Calls |-> [k \in LoaderKeys |-> NoLoader]]
  /\ tasks = [c \in Calls |-> [k \in LoaderKeys |-> 0]]
  /\ batchLog = [c \in Calls |-> <<>>]
  /\ failures = [c \in Calls |-> <<>>]
  /\ behav = [k \in MatcherNames \X Subjects |-> Unset]
  /\ fbOutcome = [c \in Calls |-> Unset]
  /\ fallbackLog = [c \in Calls |-> <<>>]
  /\ loggerLog = [c \in Calls |-> <<>>]
  /\ onErrorLog = [c \in Calls |-> <<>>]
  /\ spans = [c \in Calls |-> <<>>]
  /\ dl = NewDataLoader
  /\ dlTasks = 0
  /\ dlPromise = <<>>
  /\ dlLoads = <<>>
  /\ dlEvals = <<>>
  /\ matcherMemo = NewMemo
  /\ factoryLog = <<>>
  /\ fq = NoFlush
  /\ observers = obs

\* logger.error and onError return normally
Init == InitWith("quiet")

\* ------------------------------------------------------------------------
\* contextFor(input)
\* ------------------------------------------------------------------------

\* the answers of the subject schema: a value (an object, or `undefined`
\* itself), issues, issues together with a value, an empty issues array, neither
SchemaAnswers ==
  {Answer(FALSE, <<>>, TRUE, u) : u \in Subjects}
  \cup {Answer(TRUE, <<"Invalid type">>, FALSE, Undefined),
        Answer(TRUE, <<"Invalid type">>, TRUE, "u1"),
        Answer(TRUE, <<>>, FALSE, Undefined),
        Answer(FALSE, <<>>, FALSE, Undefined)}

\* mutant of ContextForResult: an answer without a value is not checked
ContextForResultUnchecked(r) ==
  IF r.hasIssues THEN [state |-> "fail", issues |-> r.issues]
  ELSE [state |-> "ok", issues |-> <<>>]

\* mutant of ContextForResult: the issues are not looked at
ContextForResultIgnoresIssues(r) ==
  IF ~r.hasValue
  THEN [state |-> "fail", issues |-> <<"Schema validation did not return a valid value">>]
  ELSE [state |-> "ok", issues |-> <<>>]

ContextForResult(r) ==
  IF r.hasIssues THEN [state |-> "fail", issues |-> r.issues]
  ELSE IF ~r.hasValue
  THEN [state |-> "fail", issues |-> <<"Schema validation did not return a valid value">>]
  ELSE [state |-> "ok", issues |-> <<>>]

ContextFor(c, r) ==
  /\ pc[c] = "new"
  /\ UNCHANGED <<dlVars, otherVars>>
  /\ ctx' = [ctx EXCEPT ![c] = [state |-> ContextForResult(r).state,
                               issues |-> ContextForResult(r).issues,
                               answer |-> r]]
  /\ subject' = [subject EXCEPT ![c] = IF ContextForResult(r).state = "ok" THEN r.value ELSE Undefined]
  /\ pc' = [pc EXCEPT ![c] = IF ContextForResult(r).state = "ok" THEN "idle" ELSE "invalid"]
  /\ UNCHANGED <<call, result, spans>>
  /\ UNCHANGED evalVars
  /\ UNCHANGED errorVars

\* ------------------------------------------------------------------------
\* matches(segmentNameOrFn, onErrorFallback)
\* ------------------------------------------------------------------------
Span(ev, kind, name) == [ev |-> ev, kind |-> kind, name |-> name]

\* the context object handed to onError
OnErrCtx(matcherName, segmentName, subj) ==
  [matcherName |-> matcherName, segmentName |-> segmentName, subject |-> subj]

\* segmentsObj[segmentName] of a name that is not registered
NotFound == [does |-> "undefined", thrown |-> NoErr, tree |-> <<Leaf("s1", NoArg)>>]

\* mutant of Lookup: an unregistered name gets the first registered definition
LookupDefault(name) ==
  IF name \in SegmentNames THEN SegmentsObj[name] ELSE SegmentsObj["single"]

\* const segmentDefinition = segmentsObj[segmentName]
Lookup(name) ==
  IF name \in SegmentNames THEN SegmentsObj[name] ELSE NotFound

\* the segment definition function a call evaluates
DefOf(a) == IF a.isFn THEN a.fn ELSE Lookup(a.name)

\* evalContext.segmentName: the name, undefined for an ad-hoc segment
SegmentNameOf(a) == IF a.isFn THEN Undefined ELSE a.name

\* a segment span is open while the call runs, unless the name is unregistered
\* mutant of HasSegmentSpan: no path ends the segment span after the fallback
HasSegmentSpanNever(a) == FALSE

HasSegmentSpan(a) == a.isFn \/ a.name \in SegmentNames

\* matcherName of the instrumented wrapper: toNode().name of the root, if any
\* mutant of RootName: the name of the matcher is never read from toNode()
RootNameUnknown(tree) == "unknown"

RootName(tree) == IF tree[1].op = "matcher" THEN tree[1].name ELSE "unknown"

NamesIn(tree) == {tree[i].name : i \in {j \in 1..Len(tree) : tree[j].op = "matcher"}}

\* const matcherCache: MatcherCache = new Map()
NewMatcherCache(c) == [k \in Keys |-> Absent]

RECURSIVE SetToSeq(_)
SetToSeq(S) == IF S = {} THEN <<>> ELSE LET x == CHOOSE y \in S : TRUE IN <<x>> \o SetToSeq(S \ {x})

\* flushAllBatchQueues: only entries that are non-empty arrays are drained and
\* handed to evaluateBatch. The entries matches() stores are DataLoader objects.
FlushAllBatchQueues(bc) ==
  LET names == {n \in DOMAIN bc : bc[n].kind = "Array" /\ Len(bc[n].queue) > 0}
      order == SetToSeq(names)
  IN [batchContext |-> [n \in DOMAIN bc |-> IF n \in names THEN [bc[n] EXCEPT !.queue = <<>>] ELSE bc[n]],
      batches |-> [i \in 1..Len(order) |-> [loader |-> order[i], batch |-> bc[order[i]].queue, does |-> "array"]]]

\* the leaves of a tree, from left to right, whose ResultAsync has completed as
\* a failure, of those whose ResultAsync is stored under one of `keys` (NoKey:
\* not stored)
FailedLeaves(tree, os, ch, keys) ==
  LET Failed(n) == /\ tree[n].op = "matcher"
                   /\ os[n].key \in keys
                   /\ LeafResult(os[n], ch).st = "err"
  IN SelectSeq([n \in 1..Len(tree) |-> n], Failed)

\* matcherDefinition._evaluateInternal(evalContext), up to the first await
Launch(c, a, preSpans) ==
  \E made \in {CallFactories(matcherMemo, DefOf(a).tree, 1)} :
    LET tree == made.tree
        used == NamesIn(tree) \cap SingleNames
    IN \E ev \in [used -> SingleBehaviours] :
         /\ matcherMemo' = made.memo
         /\ UNCHANGED <<flushVars, obsVars>>
         /\ UNCHANGED factoryLog
         /\ \A m \in used : behav[<<m, subject[c]>>] \in {Unset, ev[m]}
         /\ \E st1 \in {LaunchNode([cache |-> NewMatcherCache(c),
                                    outs |-> [i \in 1..Len(tree) |-> NotLaunched],
                                    invoked |-> invoked[c],
                                    batchContext |-> batchContext[c],
                                    tasks |-> tasks[c]],
                                   tree, 1,
                                   [params |-> subject[c], segmentName |-> SegmentNameOf(a),
                                    batchContext |-> "given", evaluate |-> ev])} :
              /\ cache' = [cache EXCEPT ![c] = st1.cache]
              /\ outs' = [outs EXCEPT ![c] = st1.outs]
              /\ invoked' = [invoked EXCEPT ![c] = st1.invoked]
              /\ batchContext' = [batchContext EXCEPT ![c] = st1.batchContext]
              /\ tasks' = [tasks EXCEPT ![c] = st1.tasks]
              /\ failures' = [failures EXCEPT ![c] =
                                FailedLeaves(tree, st1.outs, st1.cache, Keys \cup {NoKey})]
         /\ behav' = [k \in DOMAIN behav |->
                        IF k[2] = subject[c] /\ k[1] \in used THEN ev[k[1]] ELSE behav[k]]
         /\ pc' = [pc EXCEPT ![c] = "awaitEval"]
         /\ spans' = [spans EXCEPT ![c] = @ \o preSpans]
         /\ UNCHANGED <<batchLog, result>>
         /\ UNCHANGED errorVars

\* what a throwing logger.error or onError throws
ObserverError == Thrown(TRUE, "observer failed")

\* what logger.error and the onError observer of a builder do
ObserverBehaviours == {"quiet", "loggerThrows", "onErrorThrows"}

\* the catch handlers a failure of call a passes through when every handler
\* throws again: the branch that handles it, the catch of the segment's try
\* block, the catch of matches() itself
Handlers(a) == IF ~a.isFn /\ Lookup(a.name).does \in {"undefined", "throws"} THEN 2 ELSE 3

\* the failure branches: logger.error, onError, span status, then the fallback
\* (called inside try, awaited) or false
Fail(c, a, err, errCtx, preOnError, preSpans) ==
  /\ UNCHANGED otherVars
  /\ IF observers = "quiet"
     THEN /\ loggerLog' = [loggerLog EXCEPT ![c] = Append(@, err)]
          /\ onErrorLog' = [onErrorLog EXCEPT ![c] = @ \o preOnError \o <<[err |-> err, ctx |-> errCtx]>>]
          /\ IF a.hasFallback
             THEN \E b \in FallbackBehaviours :
                    /\ fbOutcome' = [fbOutcome EXCEPT ![c] = b]
                    /\ fallbackLog' = [fallbackLog EXCEPT ![c] = Append(@, <<ToError(err)>>)]
                    /\ pc' = [pc EXCEPT ![c] = "awaitFallback"]
                    /\ spans' = [spans EXCEPT ![c] = @ \o preSpans]
                    /\ UNCHANGED result
             ELSE /\ pc' = [pc EXCEPT ![c] = "done"]
                  /\ result' = [result EXCEPT ![c] = "false"]
                  /\ spans' = [spans EXCEPT ![c] = @ \o preSpans \o <<Span("end", "segment", a.name)>>]
                  /\ UNCHANGED <<fbOutcome, fallbackLog>>
     ELSE LET first == IF observers = "onErrorThrows" /\ preOnError # <<>> THEN ObserverError ELSE err
              errs == [i \in 1..Handlers(a) |-> IF i = 1 THEN first ELSE ObserverError]
              ctxs == [i \in 1..Handlers(a) |->
                         IF i = 1 THEN errCtx
                         ELSE IF i = Handlers(a) \/ a.isFn THEN OnErrCtx("-", "-", subject[c])
                         ELSE OnErrCtx("-", a.name, subject[c])]
          IN /\ loggerLog' = [loggerLog EXCEPT ![c] = @ \o errs]
             /\ onErrorLog' = [onErrorLog EXCEPT ![c] =
                                 @ \o preOnError \o
                                 (IF observers = "loggerThrows" THEN <<>>
                                  ELSE [i \in 1..Handlers(a) |-> [err |-> errs[i], ctx |-> ctxs[i]]])]
             /\ pc' = [pc EXCEPT ![c] = "done"]
             /\ result' = [result EXCEPT ![c] = "rejected"]
             /\ spans' = [spans EXCEPT ![c] = @ \o preSpans \o <<Span("end", "segment", a.name)>>]
             /\ UNCHANGED <<fbOutcome, fallbackLog>>

\* mutant of Succeed: the success branch reports to logger.error as well
SucceedLogged(c, a, val, preSpans) ==
  /\ UNCHANGED otherVars
  /\ pc' = [pc EXCEPT ![c] = "done"]
  /\ result' = [result EXCEPT ![c] = B2S(val)]
  /\ spans' = [spans EXCEPT ![c] = @ \o preSpans \o <<Span("end", "segment", a.name)>>]
  /\ loggerLog' = [loggerLog EXCEPT ![c] = Append(@, NewError("success"))]
  /\ UNCHANGED <<fbOutcome, fallbackLog, onErrorLog>>

\* the success branch: the value of the tree; finally segmentSpan.end()
Succeed(c, a, val, preSpans) ==
  /\ UNCHANGED otherVars
  /\ pc' = [pc EXCEPT ![c] = "done"]
  /\ result' = [result EXCEPT ![c] = B2S(val)]
  /\ spans' = [spans EXCEPT ![c] = @ \o preSpans \o <<Span("end", "segment", a.name)>>]
  /\ UNCHANGED errorVars

\* the call of matches(), up to its first await
Matches(c, a) ==
  /\ pc[c] = "idle"
  /\ UNCHANGED dlVars
  /\ call' = [call EXCEPT ![c] = a]
  /\ UNCHANGED <<ctx, subject>>
  /\ IF a.isFn
     THEN IF a.fn.does = "throws"
          THEN /\ Fail(c, a, ToError(a.fn.thrown), OnErrCtx("-", "-", subject[c]), <<>>,
                       <<Span("start", "segment", "ad-hoc")>>)
               /\ UNCHANGED evalVars
          ELSE Launch(c, a, <<Span("start", "segment", "ad-hoc")>>)
     ELSE IF Lookup(a.name).does = "undefined"
     THEN /\ UNCHANGED evalVars
          /\ UNCHANGED <<loggerLog, onErrorLog, spans>>
          /\ UNCHANGED otherVars
          /\ IF a.hasFallback
             THEN \E b \in FallbackBehaviours :
                    /\ fbOutcome' = [fbOutcome EXCEPT ![c] = b]
                    /\ fallbackLog' = [fallbackLog EXCEPT ![c] =
                                         Append(@, <<NewError("Segment definition not found")>>)]
                    /\ pc' = [pc EXCEPT ![c] = "awaitFallback"]
                    /\ UNCHANGED result
             ELSE /\ pc' = [pc EXCEPT ![c] = "done"]
                  /\ result' = [result EXCEPT ![c] = "false"]
                  /\ UNCHANGED <<fbOutcome, fallbackLog>>
     ELSE /\ pc' = [pc EXCEPT ![c] = "awaitSegDef"]
          /\ UNCHANGED otherVars
          /\ spans' = [spans EXCEPT ![c] = Append(@, Span("start", "segment", a.name))]
          /\ UNCHANGED evalVars
          /\ UNCHANGED errorVars
          /\ UNCHANGED result

\* named segment: after `await segmentDefinition(...)`
SegDefResume(c) ==
  /\ pc[c] = "awaitSegDef"
  /\ UNCHANGED dlVars
  /\ UNCHANGED <<ctx, subject, call>>
  /\ IF DefOf(call[c]).does = "throws"
     THEN /\ Fail(c, call[c], ToError(DefOf(call[c]).thrown),
                  OnErrCtx("-", call[c].name, subject[c]), <<>>, <<>>)
          /\ UNCHANGED evalVars
     ELSE Launch(c, call[c], <<Span("start", "matcher", RootName(DefOf(call[c]).tree))>>)

\* a promise returned by a single evaluate() settles
SettleEvaluator(c, key) ==
  /\ pc[c] = "awaitEval"
  /\ UNCHANGED <<dlVars, otherVars>>
  /\ MatcherObj[key[1]].mode = "single"
  /\ cache[c][key].st = "pending"
  /\ LET b == behav[<<key[1], subject[c]>>]
     IN cache' = [cache EXCEPT ![c][key] =
                    IF b.kind = "promise" THEN Ok(b.val)
                    ELSE Err(MatcherEvaluationError(key[1], OrUnknown(SegmentNameOf(call[c])), b.thrown))]
  /\ failures' = [failures EXCEPT ![c] =
                    @ \o FailedLeaves(DefOf(call[c]).tree, outs[c], cache'[c], {key})]
  /\ UNCHANGED <<ctx, subject, call, pc, result, spans>>
  /\ UNCHANGED <<outs, invoked, batchContext, tasks, batchLog, behav>>
  /\ UNCHANGED errorVars

\* the microtask queued by load() runs DataLoader.flush(); a failure of
\* evaluateBatch ends in the ResultAsync that flush() returns and nobody reads
FlushLoader(c, lk) ==
  /\ tasks[c][lk] > 0
  /\ UNCHANGED <<dlVars, otherVars>>
  /\ \E b \in BatchBehaviours :
       /\ behav[<<lk[1], subject[c]>>] \in {Unset, b}
       /\ behav' = [behav EXCEPT ![<<lk[1], subject[c]>>] = b]
       /\ LET f == DLFlush(batchContext[c][lk])
          IN /\ batchContext' = [batchContext EXCEPT ![c][lk] = f.dl]
             /\ batchLog' = [batchLog EXCEPT ![c] = Append(@, [loader |-> lk, batch |-> f.batch, does |-> b.kind])]
             /\ cache' = [cache EXCEPT ![c] =
                            [k \in Keys |-> IF b.kind = "resolve" /\ k \in Resolvers(f.batch)
                                            THEN Ok(b.val) ELSE cache[c][k]]]
  /\ tasks' = [tasks EXCEPT ![c][lk] = @ - 1]
  /\ UNCHANGED <<ctx, subject, call, pc, result, spans, outs, invoked, failures>>
  /\ UNCHANGED errorVars

\* after `await` of the root's ResultAsync and of flushAllBatchQueues
EvalResume(c) ==
  LET a == call[c]
      r == EvalNode(DefOf(a).tree, 1, outs[c], cache[c])
      flushed == FlushAllBatchQueues(batchContext[c])
      inner == [err |-> ToError(r.err), ctx |-> OnErrCtx(RootName(DefOf(a).tree), a.name, subject[c])]
      endMatcher == Span("end", "matcher", RootName(DefOf(a).tree))
  IN
  /\ pc[c] = "awaitEval"
  /\ UNCHANGED dlVars
  /\ r.st # "pending"
  /\ batchContext' = [batchContext EXCEPT ![c] = flushed.batchContext]
  /\ batchLog' = [batchLog EXCEPT ![c] = @ \o flushed.batches]
  /\ UNCHANGED <<ctx, subject, call, cache, outs, invoked, tasks, behav, failures>>
  /\ IF a.isFn
     THEN IF r.st = "err"
          THEN Fail(c, a, ToError(r.err), OnErrCtx("-", "-", subject[c]), <<>>, <<>>)
          ELSE Succeed(c, a, r.val, <<>>)
     ELSE IF r.st = "err"
          THEN Fail(c, a, ToError(r.err), OnErrCtx("-", a.name, subject[c]), <<inner>>, <<endMatcher>>)
          ELSE Succeed(c, a, r.val, <<endMatcher>>)

\* mutant of FallbackResult: the fallback is called outside any try block
FallbackResultUncaught(b) ==
  IF b.kind \in {"ret", "promise"} THEN B2S(b.val) ELSE "rejected"

\* try { return await onErrorFallback(errors) } catch { logger.error(..); return false }
FallbackResult(b) ==
  IF b.kind \in {"ret", "promise"} THEN B2S(b.val) ELSE "false"

\* after `await onErrorFallback(errors)`
FallbackResume(c) ==
  LET b == fbOutcome[c]
      returned == b.kind \in {"ret", "promise"}
  IN
  /\ pc[c] = "awaitFallback"
  /\ UNCHANGED <<dlVars, otherVars>>
  /\ pc' = [pc EXCEPT ![c] = "done"]
  /\ result' = [result EXCEPT ![c] = IF ~returned /\ observers = "loggerThrows"
                                     THEN "rejected" ELSE FallbackResult(b)]
  /\ loggerLog' = [loggerLog EXCEPT ![c] =
                     IF returned THEN @
                     ELSE IF observers = "loggerThrows"
                     THEN @ \o [i \in 1..Handlers(call[c]) |->
                                  IF i = 1 THEN ToError(b.thrown) ELSE ObserverError]
                     ELSE Append(@, ToError(b.thrown))]
  /\ spans' = [spans EXCEPT ![c] = IF HasSegmentSpan(call[c])
                                    THEN Append(@, Span("end", "segment", call[c].name)) ELSE @]
  /\ UNCHANGED <<ctx, subject, call, fbOutcome, fallbackLog, onErrorLog>>
  /\ UNCHANGED evalVars

\* ------------------------------------------------------------------------
\* Specifications
\* ------------------------------------------------------------------------
MatchesArgs ==
  {NamedArg(n, f) : n \in SegmentNames \cup {UnknownSegment}, f \in BOOLEAN}
  \cup {AdHocArg(fn, f) : fn \in AdHocFns, f \in BOOLEAN}

\* one contextFor and one matches() call
Next ==
  \/ \E r \in {x \in SchemaAnswers : x.value # "u2"} : ContextFor("c1", r)
  \/ \E a \in MatchesArgs : Matches("c1", a)
  \/ SegDefResume("c1")
  \/ \E k \in Keys : SettleEvaluator("c1", k)
  \/ \E lk \in LoaderKeys : FlushLoader("c1", lk)
  \/ EvalResume("c1")
  \/ FallbackResume("c1")

Spec == Init /\ [][Next]_vars

\* ------------------------------------------------------------------------
\* A DataLoader used on its own (as test/DataLoader.unit.test.ts does)
\* ------------------------------------------------------------------------
DLRequests == {Request("u1", a, Undefined) : a \in {ArgAB, ArgBA}}

\* the number of load() calls made
MaxLoads == 4

\* loader.load(arg)
Load(arg) ==
  LET ld == DLLoad(dl, arg, Len(dlPromise) + 1)
  IN /\ Len(dlLoads) < MaxLoads
     /\ dl' = ld.dl
     /\ dlPromise' = IF ld.promise > Len(dlPromise) THEN Append(dlPromise, "pending") ELSE dlPromise
     /\ dlTasks' = dlTasks + (IF ld.schedule THEN 1 ELSE 0)
     /\ dlLoads' = Append(dlLoads, [arg |-> arg, promise |-> ld.promise,
                                    scheduled |-> ld.schedule, flushes |-> Len(dlEvals),
                                    running |-> {k \in 1..Len(dlEvals) : dlEvals[k].state = "running"}])
     /\ UNCHANGED dlEvals
     /\ UNCHANGED <<matchVars, otherVars>>

\* the microtask runs flush(): state reset, evaluateBatch(batch) called
Flush ==
  LET f == DLFlush(dl)
  IN /\ dlTasks > 0
     /\ dl' = f.dl
     /\ dlTasks' = dlTasks - 1
     /\ dlEvals' = Append(dlEvals, [batch |-> f.batch, state |-> "running"])
     /\ UNCHANGED <<dlPromise, dlLoads>>
     /\ UNCHANGED <<matchVars, otherVars>>

\* the i-th call of evaluateBatch ends: it has called every resolver, or it
\* throws or rejects having called none
EvaluateBatchEnds(i, b) ==
  /\ i \in 1..Len(dlEvals)
  /\ dlEvals[i].state = "running"
  /\ dlEvals' = [dlEvals EXCEPT ![i].state = IF b.kind = "resolve" THEN "returned" ELSE "failed"]
  /\ dlPromise' = [p \in 1..Len(dlPromise) |->
                     IF b.kind = "resolve" /\ p \in Resolvers(dlEvals[i].batch) /\ dlPromise[p] = "pending"
                     THEN B2S(b.val) ELSE dlPromise[p]]
  /\ UNCHANGED <<dl, dlTasks, dlLoads>>
  /\ UNCHANGED <<matchVars, otherVars>>

NextDL ==
  \/ \E arg \in DLRequests : Load(arg)
  \/ Flush
  \/ \E i \in 1..MaxLoads, b \in BatchBehaviours : EvaluateBatchEnds(i, b)

\* no builder: no contextFor and no matches() call exists
NoBuilder ==
  /\ ctx = <<>> /\ subject = <<>> /\ call = <<>> /\ pc = <<>> /\ result = <<>>
  /\ cache = <<>> /\ outs = <<>> /\ invoked = <<>> /\ batchContext = <<>> /\ tasks = <<>>
  /\ batchLog = <<>> /\ failures = <<>> /\ behav = <<>>
  /\ fbOutcome = <<>> /\ fallbackLog = <<>> /\ loggerLog = <<>> /\ onErrorLog = <<>>
  /\ spans = <<>>

\* const loader = new DataLoader(evaluateBatch)
InitDL ==
  /\ NoBuilder
  /\ dl = NewDataLoader
  /\ dlTasks = 0
  /\ dlPromise = <<>>
  /\ dlLoads = <<>>
  /\ dlEvals = <<>>
  /\ matcherMemo = <<>>
  /\ factoryLog = <<>>
  /\ fq = NoFlush
  /\ observers = "quiet"

SpecDL == InitDL /\ [][NextDL]_vars

\* two matches() calls of one builder, one after the other or interleaved
ConcArgs ==
  {NamedArg("twice", FALSE), NamedArg("twice", TRUE), NamedArg("mixed", FALSE),
   AdHocArg(SegmentsObj["either"], FALSE)}

NextConc ==
  \E c \in Calls :
    \/ \E r \in {x \in SchemaAnswers : /\ x.hasValue /\ ~x.hasIssues
                                        /\ x.value \in {"u1", "u2"}
                                        /\ (c = "c1" => x.value = "u1")} : ContextFor(c, r)
    \/ \E a \in ConcArgs : Matches(c, a)
    \/ SegDefResume(c)
    \/ \E k \in Keys : SettleEvaluator(c, k)
    \/ \E lk \in LoaderKeys : FlushLoader(c, lk)
    \/ EvalResume(c)
    \/ FallbackResume(c)

SpecConc == Init /\ [][NextConc]_vars

\* the scheduling of the platform: queued microtasks run, and (the proviso of the
\* termination claim) every promise of a single evaluator and of the fallback settles
FairSpec ==
  /\ Spec
  /\ WF_vars(SegDefResume("c1"))
  /\ WF_vars(\E k \in Keys : SettleEvaluator("c1", k))
  /\ WF_vars(\E lk \in LoaderKeys : FlushLoader("c1", lk))
  /\ WF_vars(EvalResume("c1"))
  /\ WF_vars(FallbackResume("c1"))

\* ------------------------------------------------------------------------
\* Properties
\* ------------------------------------------------------------------------
Launched(c) == outs[c] # <<>>
TreeOf(c) == DefOf(call[c]).tree
LeavesOf(t) == {n \in 1..Len(t) : t[n].op = "matcher"}
InnerOf(t) == {n \in 1..Len(t) : t[n].op # "matcher"}
BehOf(c, name) == behav[<<name, subject[c]>>]
ValidLeaf(leaf) == ~MatcherObj[leaf.name].hasArgs \/ ValidateArg(leaf.arg).hasValue
KeyOf(leaf) == MakeMatcherCacheKey(leaf.name, leaf.arg)
\* the leaves of t behind cache key k have a valid argument
ValidKey(t, k) == \A n \in LeavesOf(t) : KeyOf(t[n]) = k => ValidLeaf(t[n])

\* C1: the promise returned by matches() never rejects and matches() never
\* throws, whatever the segment definition, the evaluators and the fallback do:
\* a call that has ended has ended with a boolean.
C1_MatchesNeverRejects ==
  \A c \in Calls :
    /\ result[c] \in {"none", "true", "false"}
    /\ pc[c] = "done" <=> result[c] \in {"true", "false"}

C1_Witness ==
  /\ pc["c1"] = "done"
  /\ call["c1"].isFn
  /\ fbOutcome["c1"].kind = "throw"
  /\ ~fbOutcome["c1"].thrown.isError
  /\ \E k \in Keys : cache["c1"][k].st = "err"
  /\ result["c1"] = "false"

\* a single-evaluator matcher of the evaluated tree throws or rejects
SingleFails(c) ==
  \E n \in LeavesOf(TreeOf(c)) :
    /\ MatcherObj[TreeOf(c)[n].name].mode = "single"
    /\ ValidLeaf(TreeOf(c)[n])
    /\ BehOf(c, TreeOf(c)[n].name).kind \in {"throw", "reject"}

\* a batch evaluator of call c threw or rejected
BatchFailed(c) == \E i \in 1..Len(batchLog[c]) : batchLog[c][i].does \in {"throw", "reject"}

\* C2: when a single-evaluator matcher anywhere in the tree throws or rejects,
\* matches() resolves to false without a fallback and to the boolean the
\* fallback returned with one; the call is never stuck before that, unless a
\* batch evaluator of the same tree failed too.
C2_SingleFailureResult ==
  \A c \in Calls :
    (Launched(c) /\ SingleFails(c)) =>
      /\ (pc[c] = "done" /\ ~call[c].hasFallback) => result[c] = "false"
      /\ (pc[c] = "done" /\ call[c].hasFallback /\ fbOutcome[c].kind \in {"ret", "promise"}) =>
             result[c] = B2S(fbOutcome[c].val)
      /\ ~BatchFailed(c) => (pc[c] = "done" \/ ENABLED Next)

C2_Witness ==
  /\ pc["c1"] = "done"
  /\ call["c1"].name = "nested"
  /\ BehOf("c1", "s2").kind = "reject"
  /\ BehOf("c1", "s1") = Beh("ret", TRUE, NoErr)
  /\ fbOutcome["c1"] = Beh("promise", TRUE, NoErr)
  /\ result["c1"] = "true"

C2_WitnessNoFallback ==
  /\ pc["c1"] = "done"
  /\ call["c1"].name = "either"
  /\ ~call["c1"].hasFallback
  /\ BehOf("c1", "s1") = Beh("promise", TRUE, NoErr)
  /\ BehOf("c1", "s2").kind = "throw"
  /\ result["c1"] = "false"

\* C3 (the claim as stated): when evaluateBatch throws or rejects, every request
\* of that batch is resolved to false, none stays pending and the matches() call
\* ends with a boolean: a call whose batch failed can still take a step, or it
\* has ended and the batch's requests are resolved to false.
C3_BatchFailureResolved ==
  \A c \in Calls :
    \A i \in 1..Len(batchLog[c]) :
      batchLog[c][i].does \in {"throw", "reject"} =>
        \/ ENABLED Next
        \/ /\ pc[c] = "done"
           /\ \A p \in Resolvers(batchLog[c][i].batch) : cache[c][p] = Ok(FALSE)

\* C4: every matches() call reaches its terminal state, a boolean, provided the
\* single evaluators and the fallback settle and the batch evaluators call their
\* resolvers; contextFor ends in {ok:false, issues} or {ok:true, matches}.
C4_Termination ==
  /\ [](\A c \in Calls : pc[c] # "new" => ctx[c].state \in {"ok", "fail"})
  /\ [](\A c \in Calls : ctx[c].state = "fail" => pc[c] = "invalid")
  /\ \A c \in {"c1"} :
       (pc[c] \in {"awaitSegDef", "awaitEval", "awaitFallback"})
          ~> (BatchFailed(c) \/ (pc[c] = "done" /\ result[c] \in {"true", "false"}))

C4_Witness ==
  /\ pc["c1"] = "done"
  /\ call["c1"].name = "mixed"
  /\ Len(batchLog["c1"]) = 1
  /\ BehOf("c1", "s1").kind = "promise"
  /\ result["c1"] = "true"

\* the number of leaves of tree t that refer to cache key k
Refs(t, k) == Cardinality({n \in LeavesOf(t) : MakeMatcherCacheKey(t[n].name, t[n].arg) = k})

\* C5 (the claim as stated): a matcher referenced more than once in one
\* matches() call has its evaluate() invoked exactly once, whatever evaluate()
\* does.
C5_EvaluatorInvokedOnce ==
  \A c \in Calls : \A k \in Keys :
    (Launched(c) /\ Refs(TreeOf(c), k) > 1 /\ MatcherObj[k[1]].mode = "single"
       /\ ValidKey(TreeOf(c), k))
      => invoked[c][k] = 1

\* the calls of evaluateBatch made for loader lk in call c
BatchCalls(c, lk) == {i \in 1..Len(batchLog[c]) : batchLog[c][i].loader = lk}

\* what the code does about C5 and nothing more: within one call evaluate() is
\* invoked once per reference when it throws synchronously and once otherwise,
\* and evaluateBatch at most once, whatever the other call does
PerCallInvocations ==
  \A c \in Calls : \A k \in Keys :
    (Launched(c) /\ Refs(TreeOf(c), k) > 0 /\ ValidKey(TreeOf(c), k)) =>
      IF MatcherObj[k[1]].mode = "single"
      THEN invoked[c][k] = (IF BehOf(c, k[1]).kind = "throw" THEN Refs(TreeOf(c), k) ELSE 1)
      ELSE Cardinality(BatchCalls(c, k)) + tasks[c][k] = 1

RECURSIVE Truth(_, _, _)
\* the boolean value of node n, from what the evaluators answer
Truth(t, n, c) ==
  IF t[n].op = "matcher" THEN BehOf(c, t[n].name).val
  ELSE IF t[n].op = "and" THEN \A i \in 1..Len(t[n].kids) : Truth(t, t[n].kids[i], c)
  ELSE IF t[n].op = "or" THEN \E i \in 1..Len(t[n].kids) : Truth(t, t[n].kids[i], c)
  ELSE ~Truth(t, t[n].kids[1], c)

NoneFails(c) ==
  \A n \in LeavesOf(TreeOf(c)) :
    /\ ValidLeaf(TreeOf(c)[n])
    /\ BehOf(c, TreeOf(c)[n].name).kind \in {"ret", "promise", "resolve"}

\* C7: a tree of and/or/not over matchers none of which fails evaluates to its
\* boolean value, and matches() returns that value.
C7_BooleanValue ==
  \A c \in Calls :
    (pc[c] = "done" /\ Launched(c) /\ NoneFails(c)) =>
      /\ result[c] = B2S(Truth(TreeOf(c), 1, c))
      /\ EvalNode(TreeOf(c), 1, outs[c], cache[c]) = Ok(Truth(TreeOf(c), 1, c))

C7_Witness ==
  /\ pc["c1"] = "done"
  /\ call["c1"].name = "nested"
  /\ BehOf("c1", "s1") = Beh("promise", FALSE, NoErr)
  /\ BehOf("c1", "s2") = Beh("ret", TRUE, NoErr)
  /\ result["c1"] = "true"

\* the result of matches() for the tree and the evaluators of call c, by the
\* rules of C2 and C7
AloneResult(c) ==
  IF NoneFails(c) THEN B2S(Truth(TreeOf(c), 1, c))
  ELSE IF call[c].hasFallback THEN FallbackResult(fbOutcome[c])
  ELSE "false"

\* C6 (the claim as stated): of two matches() calls, one after the other or
\* interleaved, each invokes the evaluator of a matcher it references exactly
\* once of its own, and each ends with the result it has when run alone.
C6_CallsIndependent ==
  \A c \in Calls :
    (pc[c] = "done" /\ Launched(c)) =>
      /\ \A k \in Keys :
           Refs(TreeOf(c), k) > 0 =>
             IF MatcherObj[k[1]].mode = "single" THEN invoked[c][k] = 1
             ELSE Cardinality(BatchCalls(c, k)) = 1
      /\ result[c] = AloneResult(c)

\* C8: a combinator one of whose operands reports failure never reports a
\* boolean, and reports failure once all its operands have settled.
C8_FailureDominates ==
  \A c \in Calls :
    Launched(c) =>
      \A n \in InnerOf(TreeOf(c)) :
        LET t == TreeOf(c)
            rs == [i \in 1..Len(t[n].kids) |-> EvalNode(t, t[n].kids[i], outs[c], cache[c])]
            r == EvalNode(t, n, outs[c], cache[c])
        IN AnyErr(rs) => /\ r.st # "ok"
                         /\ ~AnyPending(rs) => r.st = "err"

C8_Witness ==
  /\ call["c1"].name = "nested"
  /\ Launched("c1")
  /\ pc["c1"] = "done"
  /\ cache["c1"][MakeMatcherCacheKey("s1", NoArg)] = Ok(TRUE)
  /\ cache["c1"][MakeMatcherCacheKey("s2", NoArg)].st = "err"
  /\ EvalNode(TreeOf("c1"), 1, outs["c1"], cache["c1"]).st = "err"
  /\ result["c1"] = "false"

\* the evaluator behind leaf n has been called: evaluate(), or load() for a
\* batched matcher
LeafEvaluated(c, n) ==
  LET leaf == TreeOf(c)[n]
      k == MakeMatcherCacheKey(leaf.name, leaf.arg)
  IN /\ outs[c][n].src # "none"
     /\ ValidLeaf(leaf) =>
          IF MatcherObj[leaf.name].mode = "single" THEN invoked[c][k] >= 1
          ELSE batchContext[c][k].kind = "DataLoader"

LoadsOfBatch(k) == {i \in 1..Len(dlLoads) : dlLoads[i].flushes = k - 1}
Batches == {dlLoads[i].flushes + 1 : i \in 1..Len(dlLoads)}

\* C10: on one DataLoader at most one flush is queued at any time; a load()
\* schedules a flush exactly when it is the first of its batch; evaluateBatch is
\* invoked once per batch, with exactly the requests loaded since the flush
\* before; a load() after a flush belongs to a new batch.
C10_OneFlushPerBatch ==
  /\ dlTasks \in {0, 1}
  /\ dlTasks = 1 <=> dl.scheduled
  /\ \A i \in 1..Len(dlLoads) :
       dlLoads[i].scheduled <=> (\A j \in 1..(i - 1) : dlLoads[j].flushes # dlLoads[i].flushes)
  /\ Len(dlEvals) + dlTasks = Cardinality(Batches)
  /\ \A k \in 1..Len(dlEvals) :
       /\ {dlEvals[k].batch[q].arg : q \in 1..Len(dlEvals[k].batch)} = {dlLoads[i].arg : i \in LoadsOfBatch(k)}
       /\ Resolvers(dlEvals[k].batch) = {dlLoads[i].promise : i \in LoadsOfBatch(k)}

C10_Witness ==
  /\ Len(dlEvals) = 2
  /\ Len(dlLoads) = 4
  /\ dlLoads[1].arg.arg = ArgAB /\ dlLoads[2].arg.arg = ArgBA /\ dlLoads[3].arg.arg = ArgAB
  /\ dlLoads[3].flushes = 0
  /\ dlLoads[3].promise = dlLoads[1].promise
  /\ Len(dlEvals[1].batch) = 2
  /\ dlLoads[4].arg.arg = ArgAB /\ dlLoads[4].flushes = 1
  /\ dlLoads[4].promise # dlLoads[1].promise

\* the key of a request by structural equality: stableStringify, which ignores
\* the insertion order of the properties
StructuralKey(req) == <<req.params>> \o StableStringify(req.arg) \o <<req.segmentName>>

\* C11 (the claim as stated): within one batch a load() of a request equal to
\* one already pending returns the same promise and enqueues nothing, so no
\* batch holds two equal requests; after the flush an equal request gets a new
\* entry and a new promise.
C11_DedupWithinBatch ==
  /\ \A k \in 1..Len(dlEvals) : \A p, q \in 1..Len(dlEvals[k].batch) :
       p # q => StructuralKey(dlEvals[k].batch[p].arg) # StructuralKey(dlEvals[k].batch[q].arg)
  /\ \A i, j \in 1..Len(dlLoads) :
       (i < j /\ StructuralKey(dlLoads[i].arg) = StructuralKey(dlLoads[j].arg)) =>
         (dlLoads[i].promise = dlLoads[j].promise <=> dlLoads[i].flushes = dlLoads[j].flushes)

\* what the code does about C11: the same with requests compared by
\* getCacheKey, the JSON text with the properties in insertion order
DedupByCacheKey ==
  /\ \A k \in 1..Len(dlEvals) : \A p, q \in 1..Len(dlEvals[k].batch) :
       p # q => GetCacheKey(dlEvals[k].batch[p].arg) # GetCacheKey(dlEvals[k].batch[q].arg)
  /\ \A i, j \in 1..Len(dlLoads) :
       (i < j /\ GetCacheKey(dlLoads[i].arg) = GetCacheKey(dlLoads[j].arg)) =>
         (dlLoads[i].promise = dlLoads[j].promise <=> dlLoads[i].flushes = dlLoads[j].flushes)
  /\ {e.key : e \in dl.cache} = {GetCacheKey(dl.queue[q].arg) : q \in 1..Len(dl.queue)}

\* C12: a load() made while the evaluator of batch k is still running is not
\* part of batch k: it belongs to a later batch, whose first load schedules a
\* new flush, and it is handed to a later call of evaluateBatch.
C12_LateLoadNextBatch ==
  \A i \in 1..Len(dlLoads) : \A k \in dlLoads[i].running :
    /\ dlLoads[i].promise \notin Resolvers(dlEvals[k].batch)
    /\ dlLoads[i].flushes + 1 > k
    /\ \E j \in 1..i : dlLoads[j].flushes = dlLoads[i].flushes /\ dlLoads[j].scheduled
    /\ Len(dlEvals) > dlLoads[i].flushes =>
         dlLoads[i].promise \in Resolvers(dlEvals[dlLoads[i].flushes + 1].batch)

C12_Witness ==
  /\ Len(dlLoads) = 2
  /\ dlLoads[2].running = {1}
  /\ dlLoads[2].arg = dlLoads[1].arg
  /\ dlLoads[2].scheduled
  /\ Len(dlEvals) = 2
  /\ dlEvals[1].state = "running"
  /\ dlEvals[2].state = "returned"
  /\ dlPromise[dlLoads[1].promise] = "pending"
  /\ dlPromise[dlLoads[2].promise] \in {"true", "false"}

\* the fallback was called and threw or rejected
FallbackFailed(c) == call[c].hasFallback /\ fbOutcome[c].kind \in {"throw", "reject"}

\* the call named a segment that is not registered
Unregistered(c) == call[c] # NoCall /\ ~call[c].isFn /\ call[c].name \notin SegmentNames

\* C13: a fallback that throws or rejects makes matches() resolve to false, on
\* the named, the ad-hoc and the unregistered-segment path; its failure never
\* reaches the caller.
C13_FallbackFailureIsFalse ==
  \A c \in Calls :
    FallbackFailed(c) =>
      /\ pc[c] \in {"awaitFallback", "done"}
      /\ result[c] \in {"none", "false"}
      /\ pc[c] = "done" <=> result[c] = "false"

C13_Witness ==
  /\ pc["c1"] = "done"
  /\ call["c1"] = NamedArg("both", TRUE)
  /\ BehOf("c1", "s2").kind = "reject"
  /\ fbOutcome["c1"].kind = "reject"
  /\ result["c1"] = "false"

C13_WitnessAdHoc ==
  /\ pc["c1"] = "done"
  /\ call["c1"].isFn
  /\ Launched("c1")
  /\ fbOutcome["c1"].kind = "throw"
  /\ result["c1"] = "false"

C13_WitnessUnregistered ==
  /\ pc["c1"] = "done"
  /\ Unregistered("c1")
  /\ fbOutcome["c1"].kind = "throw"
  /\ result["c1"] = "false"

\* C14: matches(name) of an unregistered name resolves to false without a
\* fallback, to what the fallback returns with one, and to false when the
\* fallback throws; it never rejects and invokes no evaluator.
C14_UnregisteredSegment ==
  \A c \in Calls :
    Unregistered(c) =>
      /\ pc[c] \in {"awaitFallback", "done"}
      /\ pc[c] = "awaitFallback" => call[c].hasFallback /\ result[c] = "none"
      /\ pc[c] = "done" =>
           result[c] = (IF ~call[c].hasFallback THEN "false"
                        ELSE IF fbOutcome[c].kind \in {"ret", "promise"} THEN B2S(fbOutcome[c].val)
                        ELSE "false")
      /\ \A k \in Keys : invoked[c][k] = 0
      /\ batchLog[c] = <<>>
      /\ outs[c] = <<>>

C14_Witness ==
  /\ pc["c1"] = "done"
  /\ call["c1"] = NamedArg(UnknownSegment, TRUE)
  /\ fbOutcome["c1"] = Beh("promise", TRUE, NoErr)
  /\ result["c1"] = "true"

C14_WitnessNoFallback ==
  /\ pc["c1"] = "done"
  /\ call["c1"] = NamedArg(UnknownSegment, FALSE)
  /\ result["c1"] = "false"

\* the segment definition function of the call threw
SegDefThrew(c) == call[c] # NoCall /\ ~Unregistered(c) /\ DefOf(call[c]).does = "throws"

\* the evaluation of the tree ended in failure
EvalFailed(c) == Launched(c) /\ EvalNode(TreeOf(c), 1, outs[c], cache[c]).st = "err"

\* the error of the failure of call c
SurfacedError(c) ==
  IF Unregistered(c) THEN NewError("Segment definition not found")
  ELSE IF SegDefThrew(c) THEN ToError(DefOf(call[c]).thrown)
  ELSE ToError(EvalNode(TreeOf(c), 1, outs[c], cache[c]).err)

\* C15 (the claim as stated): every failure of a matches() call, a matcher
\* throwing or rejecting, an invalid matcher argument, a segment definition
\* throwing and the segment not being found, has been passed to logger.error
\* when matches() resolves.
C15_FailuresLogged ==
  \A c \in Calls :
    (pc[c] = "done" /\ (Unregistered(c) \/ SegDefThrew(c) \/ EvalFailed(c))) =>
      \E i \in 1..Len(loggerLog[c]) : loggerLog[c][i] = SurfacedError(c)

\* what the code does about C15: every failure but the unregistered name is
\* logged, and it is logged before the fallback is called
LoggedUnlessUnregistered ==
  \A c \in Calls :
    (pc[c] \in {"awaitFallback", "done"} /\ (SegDefThrew(c) \/ EvalFailed(c))) =>
      \E i \in 1..Len(loggerLog[c]) : loggerLog[c][i] = SurfacedError(c)

\* the leaves of t whose bound argument fails the matcher's argument schema
InvalidLeaves(t) == {n \in LeavesOf(t) : MatcherObj[t[n].name].hasArgs /\ HasKey(t[n].arg, <<"b", "a", "d">>)}

\* C16: a matcher whose bound argument fails its schema yields a
\* MatcherArgumentError with the matcher name and the segment name ("unknown"
\* for an ad-hoc segment), its evaluate or evaluateBatch is not invoked, and
\* matches() resolves to false or to what the fallback returns.
C16_ArgumentError ==
  \A c \in Calls :
    Launched(c) =>
      \A n \in InvalidLeaves(TreeOf(c)) :
        LET leaf == TreeOf(c)[n]
            r == LeafResult(outs[c][n], cache[c])
        IN /\ r.st = "err"
           /\ r.err.name = "MatcherArgumentError"
           /\ r.err.matcherName = leaf.name
           /\ r.err.segmentName = (IF call[c].isFn THEN "unknown" ELSE call[c].name)
           /\ invoked[c][KeyOf(leaf)] = 0
           /\ KeyOf(leaf) \in LoaderKeys =>
                /\ batchContext[c][KeyOf(leaf)] = NoLoader
                /\ BatchCalls(c, KeyOf(leaf)) = {}
           /\ pc[c] = "done" =>
                result[c] = (IF call[c].hasFallback /\ fbOutcome[c].kind \in {"ret", "promise"}
                             THEN B2S(fbOutcome[c].val) ELSE "false")

C16_Witness ==
  /\ pc["c1"] = "done"
  /\ call["c1"] = NamedArg("badBatchArg", FALSE)
  /\ BehOf("c1", "s1") = Beh("ret", TRUE, NoErr)
  /\ loggerLog["c1"] = <<MatcherArgumentError("invalid argument", "q1", "badBatchArg")>>
  /\ result["c1"] = "false"

C16_WitnessAdHoc ==
  /\ pc["c1"] = "done"
  /\ call["c1"] = AdHocArg(SegmentsObj["badArg"], TRUE)
  /\ loggerLog["c1"] = <<MatcherArgumentError("invalid argument", "p1", "unknown")>>
  /\ fbOutcome["c1"] = Beh("ret", TRUE, NoErr)
  /\ result["c1"] = "true"

\* the leaves of the tree whose single evaluator throws or rejects
ThrowingLeaves(c) ==
  {n \in LeavesOf(TreeOf(c)) :
     /\ MatcherObj[TreeOf(c)[n].name].mode = "single"
     /\ ValidLeaf(TreeOf(c)[n])
     /\ BehOf(c, TreeOf(c)[n].name).kind \in {"throw", "reject"}}

\* the leaves that fail, in the order in which and / or look at their operands
FailingLeaves(c) == ThrowingLeaves(c) \cup InvalidLeaves(TreeOf(c))

\* C17: when an evaluator throws or rejects while named segment S is evaluated
\* (the failing matcher at the root or nested under and/or/not, next to
\* matchers that succeed), logger.error and onError have each been called with
\* a MatcherEvaluationError naming the failing matcher and S, whose cause is
\* what the evaluator threw.
C17_EvaluationErrorReported ==
  \A c \in Calls :
    (Launched(c) /\ ~call[c].isFn /\ pc[c] \in {"awaitFallback", "done"}) =>
      \A n \in ThrowingLeaves(c) :
        (\A m \in FailingLeaves(c) : n <= m) =>
          LET Reports(e) ==
                /\ e.name = "MatcherEvaluationError"
                /\ e.matcherName = TreeOf(c)[n].name
                /\ e.segmentName = call[c].name
                /\ e.cause = BehOf(c, TreeOf(c)[n].name).thrown.message
          IN /\ \E i \in 1..Len(loggerLog[c]) : Reports(loggerLog[c][i])
             /\ \E i \in 1..Len(onErrorLog[c]) : Reports(onErrorLog[c][i].err)

C17_Witness ==
  /\ pc["c1"] = "done"
  /\ call["c1"] = NamedArg("nested", FALSE)
  /\ BehOf("c1", "s1") = Beh("promise", FALSE, NoErr)
  /\ BehOf("c1", "s2") = Beh("throw", FALSE, Thrown(FALSE, "failstr"))
  /\ loggerLog["c1"] = <<MatcherEvaluationError("s2", "nested", Thrown(FALSE, "failstr"))>>
  /\ Len(onErrorLog["c1"]) >= 1

\* the matchers (name and bound argument) that fail in call c
FailingKeys(c) == {KeyOf(TreeOf(c)[n]) : n \in FailingLeaves(c)}

\* C18 (the claim as stated): a matches() call in which exactly one matcher
\* fails calls onError exactly once, for a named segment as for an ad-hoc one.
C18_OnErrorOncePerFailure ==
  \A c \in Calls :
    (Launched(c) /\ pc[c] \in {"awaitFallback", "done"} /\ Cardinality(FailingKeys(c)) = 1) =>
      Len(onErrorLog[c]) = 1

\* what the code does about C18: one call of onError for an ad-hoc segment,
\* two with the same error for a named one (the matcher span's catch and the
\* failure branch)
OnErrorCalls ==
  \A c \in Calls :
    (Launched(c) /\ pc[c] \in {"awaitFallback", "done"} /\ FailingKeys(c) # {}) =>
      /\ Len(onErrorLog[c]) = (IF call[c].isFn THEN 1 ELSE 2)
      /\ \A i \in 1..Len(onErrorLog[c]) : onErrorLog[c][i].err = onErrorLog[c][1].err

\* C19: contextFor classifies the validator's answer: issues give {ok:false}
\* with those issues; no issues and no value give {ok:false} with the one
\* generic issue; a value without issues, `undefined` included, gives
\* {ok:true, matches} for that value.
C19_ContextForClassifies ==
  \A c \in Calls :
    pc[c] # "new" =>
      LET a == ctx[c].answer
      IN /\ (a.hasIssues /\ Len(a.issues) > 0) =>
              ctx[c].state = "fail" /\ ctx[c].issues = a.issues
         /\ (~a.hasIssues /\ ~a.hasValue) =>
              /\ ctx[c].state = "fail"
              /\ ctx[c].issues = <<"Schema validation did not return a valid value">>
         /\ (~a.hasIssues /\ a.hasValue) =>
              ctx[c].state = "ok" /\ pc[c] # "invalid" /\ subject[c] = a.value

C19_Witness ==
  /\ pc["c1"] = "invalid"
  /\ ctx["c1"].answer = Answer(FALSE, <<>>, FALSE, Undefined)
  /\ ctx["c1"].issues = <<"Schema validation did not return a valid value">>

C19_WitnessUndefinedValue ==
  /\ pc["c1"] = "done"
  /\ ctx["c1"].answer = Answer(FALSE, <<>>, TRUE, Undefined)
  /\ ctx["c1"].state = "ok"
  /\ result["c1"] = "true"

\* nothing of the segment or matcher logic has run for call c
NothingRan(c) ==
  /\ call[c] = NoCall
  /\ outs[c] = <<>>
  /\ \A k \in Keys : invoked[c][k] = 0
  /\ batchLog[c] = <<>>
  /\ fallbackLog[c] = <<>>
  /\ loggerLog[c] = <<>>
  /\ onErrorLog[c] = <<>>
  /\ result[c] = "none"

\* C20: contextFor runs no segment definition and no evaluator; input that
\* fails the subject schema gets {ok:false} and no matches function, so that
\* nothing ever runs for it; what contextFor returns depends on the schema's
\* answer only, never on a matcher or segment error.
C20_InvalidInputRunsNothing ==
  \A c \in Calls :
    /\ pc[c] \in {"new", "idle", "invalid"} => NothingRan(c)
    /\ (ctx[c].answer.hasIssues /\ pc[c] # "new") => ctx[c].state = "fail"
    /\ ctx[c].state = "fail" => pc[c] = "invalid"
    /\ ctx[c].state = "fail" =>
         ctx[c].issues \in {ctx[c].answer.issues, <<"Schema validation did not return a valid value">>}
    /\ ctx[c].state = "ok" => ctx[c].issues = <<>>

C20_Witness ==
  /\ pc["c1"] = "invalid"
  /\ ctx["c1"].answer = Answer(TRUE, <<"Invalid type">>, TRUE, "u1")
  /\ ctx["c1"].state = "fail"
  /\ ctx["c1"].issues = <<"Invalid type">>
  /\ NothingRan("c1")

\* ------------------------------------------------------------------------
\* createMatcher and the evaluation mode
\* ------------------------------------------------------------------------
\* the configurations a caller can write
AllConfigs ==
  {Config(h, e, b) : h \in BOOLEAN, e \in {"undefined", "evaluate"},
                     b \in {"undefined", "evaluateBatch"}}

\* the matchers whose configuration was written with both evaluators
BothNames == {"b1"}

\* C21: a configuration with both evaluators is accepted and behaves as
\* batch-only: createMatcher returns it without `evaluate` and with the given
\* `evaluateBatch`, and in matches() its single evaluator is never invoked, only
\* evaluateBatch; a configuration with exactly one evaluator is returned as it is.
C21_BothMeansBatch ==
  /\ \A cfg \in AllConfigs :
       IF cfg.evaluate # "undefined" /\ cfg.evaluateBatch # "undefined"
       THEN /\ CreateMatcher(cfg).evaluate = "undefined"
            /\ CreateMatcher(cfg).evaluateBatch = cfg.evaluateBatch
            /\ CreateMatcher(cfg).arguments = cfg.arguments
       ELSE CreateMatcher(cfg) = cfg
  /\ \A m \in BothNames :
       /\ MatcherConfigs[m].evaluate = "undefined"
       /\ MatcherObj[m].mode = "batch"
       /\ \A c \in Calls : \A k \in Keys :
            k[1] = m =>
              /\ invoked[c][k] = 0
              /\ cache[c][k].st = "ok" => \E i \in 1..Len(batchLog[c]) :
                                            /\ batchLog[c][i].loader = k
                                            /\ batchLog[c][i].does = "resolve"

C21_Witness ==
  /\ pc["c1"] = "done"
  /\ call["c1"].name = "mixed"
  /\ Len(batchLog["c1"]) = 1
  /\ batchLog["c1"][1].loader[1] = "b1"
  /\ cache["c1"][MakeMatcherCacheKey("b1", NoArg)] = Ok(TRUE)
  /\ invoked["c1"][MakeMatcherCacheKey("s1", NoArg)] = 1
  /\ result["c1"] = "true"

\* ------------------------------------------------------------------------
\* The factories called directly (as test/wrapMatchers.edge.test.ts does)
\* ------------------------------------------------------------------------
\* the values nested in an array or an object
Elems == {JNum(<<"1">>), JStr(<<"1">>), JArr(<<JNum(<<"1">>)>>), JObj(<<>>)}

Atoms ==
  {JNull, JBool(TRUE), JBool(FALSE), JNum(<<"1">>), JNum(<<"2">>),
   JStr(<<"1">>), JStr(<<"n", "u", "l", "l">>), JStr(<<"t", "r", "u", "e">>),
   JStr(<<"\"">>), JStr(<<"\\">>), JStr(<<"\\", "\"">>)}

Arrays ==
  {JArr(<<>>)} \cup {JArr(<<x>>) : x \in Elems} \cup {JArr(<<x, y>>) : x, y \in Elems}

PropNames == {<<"a">>, <<"b">>}

Objects ==
  {JObj(<<>>)}
  \cup {JObj(<<Prop(k, x)>>) : k \in PropNames, x \in Elems}
  \cup {JObj(<<Prop(k[1], x), Prop(k[2], y)>>) :
          k \in {kk \in PropNames \X PropNames : kk[1] # kk[2]}, x, y \in Elems}
  \cup {JObj(<<Prop(<<"a">>, ArgAB)>>), JObj(<<Prop(<<"a">>, ArgBA)>>),
        JObj(<<Prop(<<"a">>, JNum(<<"1">>)), Prop(<<"a", "b">>, JNum(<<"1">>))>>),
        JObj(<<Prop(<<"a", "b">>, JNum(<<"1">>)), Prop(<<"a">>, JNum(<<"1">>))>>)}

\* null, booleans, numbers, strings, arrays and nested objects
JsonValues == Atoms \cup Arrays \cup Objects

\* new Date(..) of two different instants (examples/one.ts: createdAfter)
Dates == {JDate(<<"d", "1">>), JDate(<<"d", "2">>)}

\* the number of factory calls made
MaxCalls == 2

\* wrapped[name](arg), called by a test or by a segment definition function
CallFactory(name, arg) ==
  LET f == Factory(matcherMemo, name, arg)
  IN /\ Len(factoryLog) < MaxCalls
     /\ matcherMemo' = f.memo
     /\ factoryLog' = Append(factoryLog, [name |-> name, arg |-> arg, instance |-> f.instance,
                                          key |-> MakeMatcherCacheKey(name, arg)])
     /\ UNCHANGED <<matchVars, dlVars, flushVars, obsVars>>

NextMemo ==
  \/ \E arg \in JsonValues \cup Dates : CallFactory("p1", arg)
  \/ CallFactory("s1", NoArg)

\* const wrapped = wrapMatchers(matchers)
InitMemo ==
  /\ NoBuilder
  /\ dl = NoLoader
  /\ dlTasks = 0
  /\ dlPromise = <<>>
  /\ dlLoads = <<>>
  /\ dlEvals = <<>>
  /\ matcherMemo = NewMemo
  /\ factoryLog = <<>>
  /\ fq = NoFlush
  /\ observers = "quiet"

SpecMemo == InitMemo /\ [][NextMemo]_vars

RECURSIVE DeepEqual(_, _)
\* x and y are deeply equal, the order of an object's keys ignored
DeepEqual(x, y) ==
  /\ x.t = y.t
  /\ x.s = y.s
  /\ Len(x.kids) = Len(y.kids)
  /\ IF x.t = "array"
     THEN \A i \in 1..Len(x.kids) : DeepEqual(x.kids[i].v, y.kids[i].v)
     ELSE \A i \in 1..Len(x.kids) :
            /\ HasKey(y, x.kids[i].k)
            /\ DeepEqual(x.kids[i].v, ValueOf(y, x.kids[i].k))

\* C22 (the claim as stated): a factory with an argument schema returns the same
\* MatcherDefinition object for two calls with deeply equal arguments and
\* different objects for two different arguments, two different Dates included;
\* a factory without an argument schema always returns the same object.
C22_MemoByDeepEquality ==
  \A i, j \in 1..Len(factoryLog) :
    factoryLog[i].name = factoryLog[j].name =>
      IF MatcherObj[factoryLog[i].name].hasArgs
      THEN (factoryLog[i].instance = factoryLog[j].instance)
             <=> DeepEqual(factoryLog[i].arg, factoryLog[j].arg)
      ELSE factoryLog[i].instance = factoryLog[j].instance

\* what the code does about C22: the objects are the same exactly when the
\* stableStringify texts of the arguments are, and a Date's text is {}
MemoByArgKey ==
  \A i, j \in 1..Len(factoryLog) :
    factoryLog[i].name = factoryLog[j].name =>
      ((factoryLog[i].instance = factoryLog[j].instance)
         <=> ArgKey(factoryLog[i].name, factoryLog[i].arg) = ArgKey(factoryLog[j].name, factoryLog[j].arg))

C23_WitnessDifferentTypes ==
  /\ Len(factoryLog) = 2
  /\ factoryLog[1].arg = JNum(<<"1">>)
  /\ factoryLog[2].arg = JStr(<<"1">>)
  /\ factoryLog[1].key # factoryLog[2].key

\* ------------------------------------------------------------------------
\* Failures of the operands of and / or
\* ------------------------------------------------------------------------
\* the root of the evaluated tree is an and / or whose operands are all matchers
FlatRoot(c) ==
  /\ Launched(c)
  /\ TreeOf(c)[1].op \in {"and", "or"}
  /\ \A i \in 1..Len(TreeOf(c)[1].kids) : TreeOf(c)[TreeOf(c)[1].kids[i]].op = "matcher"

\* the ResultAsync the root of the evaluated tree returned
RootResult(c) == EvalNode(TreeOf(c), 1, outs[c], cache[c])

\* the failure of leaf n, as an operator hands it on
FailureOf(c, n) == ToError(LeafResult(outs[c][n], cache[c]).err)

\* C24 (the claim as stated): when more than one operand of an and / or fails,
\* the failure the operator propagates is that of the operand whose failure
\* completed first.
C24_FirstCompletedFailure ==
  \A c \in Calls :
    (FlatRoot(c) /\ RootResult(c).st = "err") =>
      RootResult(c).err = FailureOf(c, failures[c][1])

\* what the code does about C24: the failure propagated is that of the first
\* failed operand in the order the operands were written
FirstFailureInOperandOrder ==
  \A c \in Calls :
    (FlatRoot(c) /\ RootResult(c).st = "err") =>
      \E i \in 1..Len(TreeOf(c)[1].kids) :
        /\ RootResult(c).err = FailureOf(c, TreeOf(c)[1].kids[i])
        /\ LeafResult(outs[c][TreeOf(c)[1].kids[i]], cache[c]).st = "err"
        /\ \A j \in 1..(i - 1) : LeafResult(outs[c][TreeOf(c)[1].kids[j]], cache[c]).st = "ok"

\* ------------------------------------------------------------------------
\* C25: short-circuiting of and / or
\* ------------------------------------------------------------------------
\* the states of the operands' ResultAsyncs of node n
OperandResults(c, n) ==
  [i \in 1..Len(TreeOf(c)[n].kids) |-> EvalNode(TreeOf(c), TreeOf(c)[n].kids[i], outs[c], cache[c])]

\* node n has an operand whose value alone would decide the operator
Deciding(c, n) ==
  \E i \in 1..Len(TreeOf(c)[n].kids) :
    /\ OperandResults(c, n)[i].st = "ok"
    /\ OperandResults(c, n)[i].val = (TreeOf(c)[n].op = "or")

AndOrNodes(c) == {n \in InnerOf(TreeOf(c)) : TreeOf(c)[n].op \in {"and", "or"}}

StartedSpans(c) == {Span("start", spans[c][i].kind, spans[c][i].name) : i \in 1..Len(spans[c])}

\* how often span sp (given by its start event) was started / ended among the
\* first k span events of call c
Starts(c, sp, k) ==
  Cardinality({i \in 1..k : spans[c][i] = sp})
Ends(c, sp, k) ==
  Cardinality({i \in 1..k : spans[c][i] = Span("end", sp.kind, sp.name)})

\* C26: every span started during a matches() call that has returned has
\* been ended exactly once, whatever the outcome; and no span is ever ended
\* before it was started or more often than it was started.
C26_SpansEndedOnce ==
  \A c \in Calls :
    \A sp \in StartedSpans(c) :
      /\ \A k \in 1..Len(spans[c]) : Ends(c, sp, k) <= Starts(c, sp, k)
      /\ pc[c] = "done" =>
           /\ Starts(c, sp, Len(spans[c])) = 1
           /\ Ends(c, sp, Len(spans[c])) = 1

\* a matcher failed and the fallback threw: both spans are closed
C26_Witness ==
  /\ pc["c1"] = "done"
  /\ call["c1"] = NamedArg("single", TRUE)
  /\ fbOutcome["c1"].kind = "throw"
  /\ Len(spans["c1"]) = 4

\* the segment definition threw and the fallback returned
C26_WitnessSegDefThrows ==
  /\ pc["c1"] = "done"
  /\ call["c1"].isFn
  /\ call["c1"].fn.does = "throws"
  /\ fbOutcome["c1"].kind = "ret"
  /\ Len(spans["c1"]) = 2

\* call c is for a registered segment whose definition is one matcher
SingleMatcherSegment(c) ==
  /\ call[c] # NoCall
  /\ ~call[c].isFn
  /\ call[c].name \in SegmentNames
  /\ DefOf(call[c]).does = "returns"
  /\ Len(DefOf(call[c]).tree) = 1

\* the span events of such a call, in order
TwoSpans(c) ==
  <<Span("start", "segment", call[c].name),
    Span("start", "matcher", DefOf(call[c]).tree[1].name),
    Span("end", "matcher", DefOf(call[c]).tree[1].name),
    Span("end", "segment", call[c].name)>>

\* C27: a call for a registered segment with a single matcher produces
\* exactly two spans, segment:<name> and matcher:<matcher name>; the matcher
\* span is started after the segment span is started and ended before the
\* segment span is ended.
C27_SegmentAndMatcherSpan ==
  \A c \in Calls :
    SingleMatcherSegment(c) =>
      /\ Len(spans[c]) <= 4
      /\ SubSeq(TwoSpans(c), 1, Len(spans[c])) = spans[c]
      /\ pc[c] = "done" => spans[c] = TwoSpans(c)

C27_Witness ==
  /\ pc["c1"] = "done"
  /\ call["c1"].name = "single"
  /\ SingleMatcherSegment("c1")
  /\ result["c1"] = "true"
  /\ spans["c1"] = <<Span("start", "segment", "single"), Span("start", "matcher", "s1"),
                     Span("end", "matcher", "s1"), Span("end", "segment", "single")>>

\* ------------------------------------------------------------------------
\* C28: what the fallback receives
\* ------------------------------------------------------------------------
\* C28: whenever the fallback is invoked it receives a non-empty array whose
\* elements are all Error objects; when the value thrown by the segment
\* definition was not an Error, the element is an Error whose message is the
\* string form of that value.
C28_FallbackReceivesErrors ==
  \A c \in Calls :
    \A i \in 1..Len(fallbackLog[c]) :
      /\ Len(fallbackLog[c][i]) >= 1
      /\ \A j \in 1..Len(fallbackLog[c][i]) : fallbackLog[c][i][j].isError
      /\ (SegDefThrew(c) /\ ~DefOf(call[c]).thrown.isError) =>
           fallbackLog[c][i] = <<NewError(DefOf(call[c]).thrown.message)>>

\* a segment definition threw the string "failstr": the fallback got one Error
\* with that message
C28_Witness ==
  /\ call["c1"] = NamedArg("throwsString", TRUE)
  /\ Len(fallbackLog["c1"]) = 1
  /\ fallbackLog["c1"][1][1].isError
  /\ fallbackLog["c1"][1][1].name = "Error"
  /\ fallbackLog["c1"][1][1].message = "failstr"

\* an evaluator threw a string: the fallback got the evaluation error
C28_WitnessEvaluatorString ==
  /\ call["c1"] = NamedArg("single", TRUE)
  /\ Len(fallbackLog["c1"]) = 1
  /\ fallbackLog["c1"][1][1].name = "MatcherEvaluationError"
  /\ fallbackLog["c1"][1][1].cause = "failstr"

\* ------------------------------------------------------------------------
\* C29: the per-call cache holds every outcome
\* ------------------------------------------------------------------------
\* C29 (the claim as stated): after _evaluateInternal returned for a leaf,
\* the per-call cache holds the returned outcome under the leaf's key, for
\* success, evaluation-error and argument-error outcomes alike.
C29_OutcomeCached ==
  \A c \in Calls :
    Launched(c) =>
      \A n \in LeavesOf(TreeOf(c)) :
        /\ cache[c][KeyOf(TreeOf(c)[n])].st # "absent"
        /\ LeafResult(outs[c][n], cache[c]) = cache[c][KeyOf(TreeOf(c)[n])]

\* what the code does: the outcome is in the cache unless the argument was
\* invalid or evaluate() threw synchronously; such an outcome is an error that
\* only this reference holds
CachedUnlessThrownOrInvalid ==
  \A c \in Calls :
    Launched(c) =>
      \A n \in LeavesOf(TreeOf(c)) :
        IF n \in InvalidLeaves(TreeOf(c)) \/
           (ValidLeaf(TreeOf(c)[n]) /\ MatcherObj[TreeOf(c)[n].name].mode = "single"
              /\ BehOf(c, TreeOf(c)[n].name).kind = "throw")
        THEN /\ outs[c][n].src = "own"
             /\ outs[c][n].res.st = "err"
             /\ cache[c][KeyOf(TreeOf(c)[n])].st = "absent"
        ELSE /\ outs[c][n] = FromCache(KeyOf(TreeOf(c)[n]))
             /\ cache[c][KeyOf(TreeOf(c)[n])].st # "absent"

\* an entry of the per-call cache is never removed, and never replaced once
\* it is settled
CacheEntriesKept ==
  [][\A c \in Calls : \A k \in Keys :
       (call'[c] = call[c] /\ cache[c] # <<>> /\ cache'[c] # <<>>) =>
         /\ cache[c][k].st # "absent" => cache'[c][k].st # "absent"
         /\ cache[c][k].st \in {"ok", "err"} => cache'[c][k] = cache[c][k]]_vars

\* ------------------------------------------------------------------------
\* C30: a batch evaluator that fails inside flush()
\* ------------------------------------------------------------------------
\* the calls of evaluateBatch that threw or rejected
FailedBatches == {k \in 1..Len(dlEvals) : dlEvals[k].state = "failed"}

\* C30: when evaluateBatch throws or rejects inside flush(), no promise
\* returned by load() is rejected; the promises of that batch, whose resolvers
\* were not called, stay pending; flush() left the DataLoader with an empty
\* queue, an empty dedup cache and no flush scheduled, so a later load(), also
\* of an equal request, gets a new promise, schedules a new flush and is handed
\* to a new call of evaluateBatch.
C30_FailedBatchLeavesPending ==
  /\ \A p \in 1..Len(dlPromise) : dlPromise[p] \in {"pending", "true", "false"}
  /\ \A k \in FailedBatches :
       /\ \A p \in Resolvers(dlEvals[k].batch) : dlPromise[p] = "pending"
       /\ \A i \in 1..Len(dlLoads) :
            dlLoads[i].flushes >= k =>
              /\ dlLoads[i].promise \notin Resolvers(dlEvals[k].batch)
              /\ \E j \in 1..i : dlLoads[j].flushes = dlLoads[i].flushes /\ dlLoads[j].scheduled
              /\ Len(dlEvals) > dlLoads[i].flushes =>
                   /\ dlLoads[i].flushes + 1 # k
                   /\ dlLoads[i].promise \in Resolvers(dlEvals[dlLoads[i].flushes + 1].batch)
  /\ (Len(dlEvals) > 0 /\ \A i \in 1..Len(dlLoads) : dlLoads[i].flushes < Len(dlEvals)) =>
       dl = NewDataLoader

\* the first batch failed; an equal request loaded afterwards got a new
\* promise through a second call of evaluateBatch, the first promise is
\* still pending
C30_Witness ==
  /\ Len(dlLoads) = 2
  /\ Len(dlEvals) = 2
  /\ dlEvals[1].state = "failed"
  /\ dlLoads[2].arg = dlLoads[1].arg
  /\ dlLoads[2].flushes = 1
  /\ dlLoads[2].scheduled
  /\ dlLoads[2].promise # dlLoads[1].promise
  /\ dlPromise[dlLoads[1].promise] = "pending"
  /\ dlEvals[2].state = "returned"
  /\ dlPromise[dlLoads[2].promise] \in {"true", "false"}
  /\ dl = NewDataLoader

\* ------------------------------------------------------------------------
\* flushAllBatchQueues called on its own (as test/wrapMatchers.edge.test.ts does)
\* ------------------------------------------------------------------------
\* the longest queue of a batch context handed to flushAllBatchQueues
MaxQueue == 2

\* the names of the batch context, in the order `for (const name in batchContext)` visits them
FlushNames == <<"b1", "q1", "s1">>

\* typeof matcher.evaluateBatch === "function"
HasEvaluateBatch(name) == name \in MatcherNames /\ MatcherObj[name].mode = "batch"

\* a queue of n [request, resolve] pairs under `name`
ArrayOf(name, n) ==
  [kind |-> "Array",
   queue |-> [i \in 1..n |-> [arg |-> Request("u1", NoArg, Undefined), resolve |-> <<name, i>>]],
   scheduled |-> FALSE, cache |-> {}]

\* the batch contexts handed in: per name an array, empty or not, or an object
\* that is no array
BatchContexts ==
  [{FlushNames[i] : i \in 1..Len(FlushNames)} -> {"Array0", "Array1", "ArrayMax", "DataLoader"}]

EntryOf(name, shape) ==
  IF shape = "DataLoader" THEN NewDataLoader
  ELSE ArrayOf(name, IF shape = "Array0" THEN 0 ELSE IF shape = "Array1" THEN 1 ELSE MaxQueue)

\* resolve(v) called for every entry of the queue, in order
ResolveAll(queue, v) == [i \in 1..Len(queue) |-> [resolve |-> queue[i].resolve, value |-> v]]

\* mutant of CatchBatchFailure: no try / catch around the call of evaluateBatch
NoCatchBatchFailure(f, queue) == [f EXCEPT !.pc = "rejected", !.todo = <<>>]

\* catch { for (const [, resolve] of queue) resolve(false) }
CatchBatchFailure(f, queue) == [f EXCEPT !.resolved = @ \o ResolveAll(queue, "false")]

RECURSIVE FlushLoop(_)
\* the for-in loop, from the next name up to the next `await` that suspends
\* or to the return
FlushLoop(f) ==
  IF f.pc = "rejected" THEN f
  ELSE IF f.todo = <<>> THEN [f EXCEPT !.pc = "returned"]
  ELSE LET name == Head(f.todo)
           queue == f.batchContext[name].queue
           skipped == [f EXCEPT !.todo = Tail(@)]
           drained == [skipped EXCEPT !.batchContext[name].queue = <<>>]
           called == [drained EXCEPT !.batches = Append(@, [loader |-> name, batch |-> queue,
                                                             does |-> f.ev[name].kind])]
       IN IF ~(f.batchContext[name].kind = "Array" /\ Len(queue) > 0) THEN FlushLoop(skipped)
          ELSE IF ~HasEvaluateBatch(name) THEN FlushLoop(drained)
          ELSE IF f.ev[name].kind = "throw" THEN FlushLoop(CatchBatchFailure(called, queue))
          ELSE [called EXCEPT !.pc = "awaitBatch", !.awaited = name]

\* flushAllBatchQueues(batchContext, matchers) is called
CallFlushAll(shapes, ev) ==
  LET bc == [n \in DOMAIN shapes |-> EntryOf(n, shapes[n])]
  IN /\ fq.pc = "idle"
     /\ fq' = FlushLoop([NoFlush EXCEPT !.pc = "running", !.given = bc, !.batchContext = bc,
                                        !.todo = FlushNames, !.ev = ev])
     /\ UNCHANGED <<matchVars, dlVars, memoVars, obsVars>>

\* the promise of the awaited evaluateBatch settles: the evaluator has called
\* every resolver, or it rejected and the catch calls them with false
BatchSettles ==
  LET name == fq.awaited
      b == fq.ev[name]
      queue == fq.batches[Len(fq.batches)].batch
      resumed == [fq EXCEPT !.pc = "running", !.awaited = "-"]
  IN /\ fq.pc = "awaitBatch"
     /\ fq' = IF b.kind = "reject"
              THEN FlushLoop(CatchBatchFailure(resumed, queue))
              ELSE FlushLoop([resumed EXCEPT !.resolved = @ \o ResolveAll(queue, B2S(b.val))])
     /\ UNCHANGED <<matchVars, dlVars, memoVars, obsVars>>

NextFlush ==
  \/ \E shapes \in BatchContexts, ev \in [{n \in DOMAIN MatcherObj : HasEvaluateBatch(n)} -> BatchBehaviours] :
       CallFlushAll(shapes, ev)
  \/ BatchSettles

InitFlush ==
  /\ NoBuilder
  /\ dl = NoLoader
  /\ dlTasks = 0
  /\ dlPromise = <<>>
  /\ dlLoads = <<>>
  /\ dlEvals = <<>>
  /\ matcherMemo = <<>>
  /\ factoryLog = <<>>
  /\ fq = NoFlush
  /\ observers = "quiet"

SpecFlush == InitFlush /\ [][NextFlush]_vars

\* the names flushAllBatchQueues has visited
Visited == {FlushNames[i] : i \in 1..Len(FlushNames)} \ {fq.todo[i] : i \in 1..Len(fq.todo)}

\* the calls of evaluateBatch made for `name`
BatchesOf(name) == {i \in 1..Len(fq.batches) : fq.batches[i].loader = name}

\* how often resolver r was called with false
CalledWithFalse(r) ==
  Cardinality({i \in 1..Len(fq.resolved) : fq.resolved[i] = [resolve |-> r, value |-> "false"]})

\* C31: flushAllBatchQueues replaces every queue that is a non-empty array by
\* an empty one and invokes that batched matcher's evaluateBatch exactly once
\* with the full former queue; when evaluateBatch throws or rejects, every
\* resolver of that queue is called with false and flushAllBatchQueues does
\* not reject; an empty queue causes no invocation.
C31_FlushAllBatchQueues ==
  fq.pc # "idle" =>
    /\ fq.pc \in {"awaitBatch", "returned"}
    /\ fq.pc = "returned" => Visited = {FlushNames[i] : i \in 1..Len(FlushNames)}
    /\ \A name \in Visited :
         LET queue == fq.given[name].queue
             settled == fq.awaited # name
         IN IF fq.given[name].kind = "Array" /\ Len(queue) > 0
            THEN /\ fq.batchContext[name].queue = <<>>
                 /\ HasEvaluateBatch(name) =>
                      /\ Cardinality(BatchesOf(name)) = 1
                      /\ \A i \in BatchesOf(name) : fq.batches[i].batch = queue
                      /\ (settled /\ fq.ev[name].kind \in {"throw", "reject"}) =>
                           \A i \in 1..Len(queue) : CalledWithFalse(queue[i].resolve) = 1
            ELSE /\ BatchesOf(name) = {}
                 /\ fq.batchContext[name] = fq.given[name]
    /\ \A name \in {FlushNames[i] : i \in 1..Len(FlushNames)} \ Visited :
         /\ BatchesOf(name) = {}
         /\ fq.batchContext[name] = fq.given[name]

\* the evaluator of b1 threw, that of q1 rejected: all their resolvers were
\* called with false and the call returned
C31_Witness ==
  /\ fq.pc = "returned"
  /\ Len(fq.given["b1"].queue) = MaxQueue
  /\ Len(fq.given["q1"].queue) = 1
  /\ Len(fq.given["s1"].queue) = 0
  /\ fq.ev["b1"].kind = "throw"
  /\ fq.ev["q1"].kind = "reject"
  /\ Len(fq.batches) = 2
  /\ Len(fq.batches[1].batch) = MaxQueue
  /\ \A i \in 1..MaxQueue : CalledWithFalse(<<"b1", i>>) = 1
  /\ CalledWithFalse(<<"q1", 1>>) = 1

\* ------------------------------------------------------------------------
\* C32: the issues of a failed contextFor
\* ------------------------------------------------------------------------
\* C32 (the claim as stated): whenever contextFor returns {ok:false, issues},
\* the issues list holds at least one issue, for every answer of the schema
\* validator, an issues list that is present but empty included.
C32_IssuesNonEmpty ==
  \A c \in Calls :
    ctx[c].state = "fail" => Len(ctx[c].issues) >= 1

\* what the code does: the issues list is empty exactly when the validator
\* answered with an issues array that is empty
IssuesEmptyOnlyIfAnswerEmpty ==
  \A c \in Calls :
    ctx[c].state = "fail" =>
      (Len(ctx[c].issues) = 0 <=> (ctx[c].answer.hasIssues /\ ctx[c].answer.issues = <<>>))

\* ------------------------------------------------------------------------
\* _evaluateInternal of a wrapped matcher called on its own (as
\* test/wrapMatchers.edge.test.ts does), with a cache and, or not, a batch
\* context of the caller
\* ------------------------------------------------------------------------
\* the number of direct calls made with one cache
MaxDirect == 2

\* the matchers called: wrapped.test({foo: "bar"}), wrapped.test()
DirectLeaves ==
  {Leaf(m, NoArg) : m \in {n \in MatcherNames : ~MatcherObj[n].hasArgs}}
  \cup {Leaf(m, a) : m \in {n \in MatcherNames : MatcherObj[n].hasArgs}, a \in ArgValues}

\* wrapped.m(arg)._evaluateInternal({params, arg, cache, segmentName, batchContext})
EvaluateDirect(c, leaf, given) ==
  /\ pc[c] = "new"
  /\ Len(outs[c]) < MaxDirect
  /\ \E b \in SingleBehaviours :
       /\ leaf.name \in SingleNames => behav[<<leaf.name, subject[c]>>] \in {Unset, b}
       /\ behav' = [behav EXCEPT ![<<leaf.name, subject[c]>>] = IF leaf.name \in SingleNames THEN b ELSE @]
       /\ leaf.name \notin SingleNames => b = Beh("ret", TRUE, NoErr)
       /\ \E st1 \in {EvaluateInternal([cache |-> cache[c],
                                        outs |-> Append(outs[c], NotLaunched),
                                        invoked |-> invoked[c],
                                        batchContext |-> batchContext[c],
                                        tasks |-> tasks[c]],
                                       Len(outs[c]) + 1, leaf,
                                       [params |-> subject[c], segmentName |-> "seg",
                                        batchContext |-> given,
                                        evaluate |-> [m \in SingleNames |-> b]])} :
            /\ cache' = [cache EXCEPT ![c] = st1.cache]
            /\ outs' = [outs EXCEPT ![c] = st1.outs]
            /\ invoked' = [invoked EXCEPT ![c] = st1.invoked]
            /\ batchContext' = [batchContext EXCEPT ![c] = st1.batchContext]
            /\ tasks' = [tasks EXCEPT ![c] = st1.tasks]
  /\ UNCHANGED <<ctx, subject, call, pc, result, batchLog, failures, spans>>
  /\ UNCHANGED errorVars
  /\ UNCHANGED <<dlVars, otherVars>>

NextDirect ==
  \/ \E leaf \in DirectLeaves, given \in {"given", Undefined} : EvaluateDirect("c1", leaf, given)
  \/ \E lk \in LoaderKeys : FlushLoader("c1", lk)

SpecDirect == Init /\ [][NextDirect]_vars

\* C33: a batched matcher whose _evaluateInternal is called with a valid
\* argument, an empty cache and no batch context throws synchronously
\* ("batchContext is required for batch matchers"): it returns no tagged
\* failure and no result, enqueues no request and writes nothing to the cache.
C33_NoBatchContextThrows ==
  [][\A leaf \in DirectLeaves :
       (/\ EvaluateDirect("c1", leaf, Undefined)
        /\ leaf.name \in BatchNames
        /\ ValidLeaf(leaf)
        /\ cache["c1"] = NewMatcherCache("c1")) =>
         /\ outs'["c1"][Len(outs'["c1"])] =
              Threw(NewError("batchContext is required for batch matchers"))
         /\ cache'["c1"] = cache["c1"]
         /\ batchContext'["c1"] = batchContext["c1"]
         /\ tasks'["c1"] = tasks["c1"]
         /\ batchLog'["c1"] = batchLog["c1"]]_vars

\* the first direct call was of a batched matcher without a batch context: it
\* threw, the cache is empty and no DataLoader exists
C33_Witness ==
  /\ Len(outs["c1"]) = 1
  /\ outs["c1"][1].src = "thrown"
  /\ outs["c1"][1].res.err.message = "batchContext is required for batch matchers"
  /\ cache["c1"] = NewMatcherCache("c1")
  /\ \A lk \in LoaderKeys : batchContext["c1"][lk] = NoLoader /\ tasks["c1"][lk] = 0

\* ------------------------------------------------------------------------
\* C34: observers that throw
\* ------------------------------------------------------------------------
\* a builder whose logger.error or onError may throw
InitObs == \E obs \in ObserverBehaviours : InitWith(obs)

SpecObs == InitObs /\ [][Next]_vars

\* C34 (the claim as stated): when the onError observer or logger.error
\* throws while a failure of a matches() call is handled, the exception is
\* contained: matches() resolves to a boolean and does not reject.
C34_ObserverFailureContained ==
  \A c \in Calls :
    (pc[c] = "done" /\ observers \in {"loggerThrows", "onErrorThrows"} /\ Len(loggerLog[c]) > 0) =>
      result[c] \in {"true", "false"}

\* what the code does: a call rejects exactly when a failure was handled with
\* an observer that throws; the fallback is then not called, or had failed
RejectsWhenObserverThrows ==
  \A c \in Calls :
    pc[c] = "done" =>
      (result[c] = "rejected" <=>
         \/ observers # "quiet" /\ Len(loggerLog[c]) > 0 /\ fallbackLog[c] = <<>>
         \/ observers = "loggerThrows" /\ FallbackFailed(c))

\* ------------------------------------------------------------------------
\* C35, C36: the requests of a DataLoader
\* ------------------------------------------------------------------------
\* the places in the batches handed to evaluateBatch where the request that
\* created promise p stands
Deliveries(p) ==
  {<<k, q>> \in (1..Len(dlEvals)) \X (1..MaxLoads) :
     q <= Len(dlEvals[k].batch) /\ dlEvals[k].batch[q].resolve = p}

\* the request that created promise p is in the pending queue
Queued(p) == \E q \in 1..Len(dl.queue) : dl.queue[q].resolve = p

\* the load() call that enqueued the request of promise p
EnqueuedBy(p) == CHOOSE i \in 1..Len(dlLoads) :
                   dlLoads[i].promise = p /\ \A j \in 1..(i - 1) : dlLoads[j].promise # p

\* C35: every request enqueued by load() is handed to evaluateBatch in
\* exactly one batch, never dropped and never delivered twice; the entries of
\* a batch are in load() order; evaluateBatch is never invoked with an empty
\* batch.
C35_EachRequestInOneBatch ==
  /\ \A p \in 1..Len(dlPromise) :
       /\ Cardinality(Deliveries(p)) = (IF Queued(p) THEN 0 ELSE 1)
       /\ \A d \in Deliveries(p) :
            /\ dlEvals[d[1]].batch[d[2]].arg = dlLoads[EnqueuedBy(p)].arg
            /\ d[1] = dlLoads[EnqueuedBy(p)].flushes + 1
  /\ \A k \in 1..Len(dlEvals) :
       /\ Len(dlEvals[k].batch) >= 1
       /\ \A q, r \in 1..Len(dlEvals[k].batch) :
            q < r => EnqueuedBy(dlEvals[k].batch[q].resolve) < EnqueuedBy(dlEvals[k].batch[r].resolve)

\* two requests were handed over in one batch, in load() order, a third in a
\* second batch
C35_Witness ==
  /\ Len(dlLoads) = 3
  /\ Len(dlEvals) = 2
  /\ dl.queue = <<>>
  /\ Len(dlEvals[1].batch) = 2
  /\ dlEvals[1].batch[1].arg.arg = ArgBA
  /\ dlEvals[1].batch[2].arg.arg = ArgAB
  /\ dlLoads[1].arg.arg = ArgBA
  /\ Len(dlEvals[2].batch) = 1
  /\ dlEvals[2].batch[1].resolve = 3

\* C36: between two operations of a DataLoader a flush is scheduled if and
\* only if the pending queue is not empty, and the dedup cache holds exactly
\* one promise per queued request: as many entries, the same request keys.
C36_CoalescerInvariant ==
  /\ dl.scheduled <=> Len(dl.queue) > 0
  /\ dlTasks = (IF Len(dl.queue) > 0 THEN 1 ELSE 0)
  /\ Cardinality(dl.cache) = Len(dl.queue)
  /\ \A q \in 1..Len(dl.queue) :
       [key |-> GetCacheKey(dl.queue[q].arg), promise |-> dl.queue[q].resolve] \in dl.cache
  /\ \A e, g \in dl.cache : e.key = g.key => e = g

\* two requests are queued, one flush is scheduled, the cache has two entries
C36_Witness ==
  /\ Len(dlEvals) = 1
  /\ Len(dl.queue) = 2
  /\ dl.scheduled
  /\ dlTasks = 1
  /\ Cardinality(dl.cache) = 2

\* ------------------------------------------------------------------------
\* C37: the DataLoaders of one matches() call
\* ------------------------------------------------------------------------
\* the (batched matcher, argument) pairs of the tree of call c that have a
\* valid argument, as loader keys
ValidBatchKeys(c) ==
  {KeyOf(TreeOf(c)[n]) : n \in {m \in LeavesOf(TreeOf(c)) :
                                  /\ TreeOf(c)[m].name \in BatchNames
                                  /\ ValidLeaf(TreeOf(c)[m])}}

\* C37: in a matches() call one DataLoader exists per (batched matcher, bound
\* argument) with a valid argument and it gets one load(), later references
\* being served from the per-call cache: every batch handed to a batch
\* evaluator has exactly one entry, and the batch evaluator is invoked once per
\* such pair, so that a call that has ended has made as many invocations as
\* it has such pairs.
C37_OneLoadPerLoader ==
  \A c \in Calls :
    Launched(c) =>
      /\ \A i \in 1..Len(batchLog[c]) : Len(batchLog[c][i].batch) = 1
      /\ \A lk \in LoaderKeys :
           /\ batchContext[c][lk].kind = "DataLoader" <=> lk \in ValidBatchKeys(c)
           /\ Len(batchContext[c][lk].queue) <= 1
           /\ Cardinality(BatchCalls(c, lk)) + tasks[c][lk] = (IF lk \in ValidBatchKeys(c) THEN 1 ELSE 0)
      /\ pc[c] \in {"awaitFallback", "done"} => Len(batchLog[c]) = Cardinality(ValidBatchKeys(c))

\* and(s1, b1, b1) has ended: b1 is referred to twice, its evaluator was
\* invoked once with a batch of one entry
C37_Witness ==
  /\ pc["c1"] = "done"
  /\ call["c1"].name = "mixed"
  /\ Refs(TreeOf("c1"), MakeMatcherCacheKey("b1", NoArg)) = 2
  /\ Len(batchLog["c1"]) = 1
  /\ Len(batchLog["c1"][1].batch) = 1
  /\ batchLog["c1"][1].loader = MakeMatcherCacheKey("b1", NoArg)

\* the two references of q1 with {a: 1, b: 2} and {b: 2, a: 1} share one
\* DataLoader and one invocation
C37_WitnessSameArgument ==
  /\ pc["c1"] = "awaitEval"
  /\ call["c1"].name = "sameArg"
  /\ Len(batchLog["c1"]) = 1
  /\ Len(batchLog["c1"][1].batch) = 1
  /\ Cardinality(ValidBatchKeys("c1")) = 1

\* ------------------------------------------------------------------------
\* C38: when the fallback and the observers are called
\* ------------------------------------------------------------------------
\* the tree of call c was evaluated and its result is a boolean
EvalSucceeded(c) == Launched(c) /\ RootResult(c).st = "ok"

\* C38: in one matches() call the fallback is invoked at most once, and only
\* when one was given and the call failed (the segment is not registered, its
\* definition threw, or the evaluation of the tree failed); when the tree
\* evaluates successfully, neither the fallback nor logger.error nor the
\* onError observer is invoked.
C38_FallbackAtMostOnce ==
  \A c \in Calls :
    /\ Len(fallbackLog[c]) <= 1
    /\ Len(fallbackLog[c]) = 1 =>
         /\ call[c].hasFallback
         /\ Unregistered(c) \/ SegDefThrew(c) \/ EvalFailed(c)
         /\ pc[c] \in {"awaitFallback", "done"}
    /\ (EvalSucceeded(c) /\ pc[c] = "done") =>
         /\ fallbackLog[c] = <<>>
         /\ loggerLog[c] = <<>>
         /\ onErrorLog[c] = <<>>
         /\ result[c] = B2S(RootResult(c).val)

\* a call with a fallback whose tree evaluated to true: nothing was reported
C38_Witness ==
  /\ pc["c1"] = "done"
  /\ call["c1"] = NamedArg("both", TRUE)
  /\ EvalSucceeded("c1")
  /\ result["c1"] = "true"
  /\ fallbackLog["c1"] = <<>>
  /\ loggerLog["c1"] = <<>>

\* a matcher failed, the fallback was called once and threw
C38_WitnessFailure ==
  /\ pc["c1"] = "done"
  /\ call["c1"] = NamedArg("both", TRUE)
  /\ EvalFailed("c1")
  /\ Len(fallbackLog["c1"]) = 1
  /\ fbOutcome["c1"].kind = "throw"

\* ------------------------------------------------------------------------
\* C39: the order of completion
\* ------------------------------------------------------------------------
\* how often the evaluator behind key k was invoked in call c
Invocations(c, k) ==
  IF MatcherObj[k[1]].mode = "single" THEN invoked[c][k] ELSE Cardinality(BatchCalls(c, k))

\* calls c and d are the same matches() call on the same subject, with
\* evaluators that answer booleans, and both have ended
SameRunTwice(c, d) ==
  /\ pc[c] = "done" /\ pc[d] = "done"
  /\ Launched(c) /\ Launched(d)
  /\ call[c] = call[d]
  /\ subject[c] = subject[d]
  /\ NoneFails(c)

\* C39: for a fixed subject and evaluators that return fixed booleans without
\* failing, two runs of the same matches() call end with the same result and
\* with the same number of invocations of every evaluator, in whatever order
\* their evaluators and flushes completed; the result is the boolean value of
\* the tree and each referenced evaluator was invoked once.
C39_OrderIndependent ==
  \A c, d \in Calls :
    SameRunTwice(c, d) =>
      /\ result[c] = result[d]
      /\ result[c] = B2S(Truth(TreeOf(c), 1, c))
      /\ \A k \in Keys :
           /\ Invocations(c, k) = Invocations(d, k)
           /\ Invocations(c, k) = (IF Refs(TreeOf(c), k) > 0 THEN 1 ELSE 0)

\* and(s1, b1, b1) was run twice on one subject, with an s1 that answers
\* through a promise: both runs ended with the same result and invocations
C39_Witness ==
  /\ SameRunTwice("c1", "c2")
  /\ call["c1"].name = "mixed"
  /\ BehOf("c1", "s1").kind = "promise"
  /\ failures["c1"] = <<>>
  /\ result["c1"] = result["c2"]
  /\ Invocations("c1", MakeMatcherCacheKey("b1", NoArg)) = 1
  /\ Invocations("c2", MakeMatcherCacheKey("s1", NoArg)) = 1
====
